------------------------------ MODULE TallyProofs ------------------------------
(***************************************************************************)
(* For every constellation, every mix of collectors and workloads and any  *)
(* number of packets, the collectors have counted exactly what became of   *)
(* the packets.  Each step of the simulation changes the fate of at most   *)
(* one packet, and announces it by one event; a packet that is published   *)
(* has no fate yet.                                                        *)
(***************************************************************************)
EXTENDS Session, Recursion, FiniteSetTheorems, SequenceTheorems

Tallies == [Counters -> Nat]

Classes == {"PacketTransmitEvent", "PacketDeliveredEvent", "PacketDropEvent",
            "PhysicsInducedDropEvent", "ComputeJobCompleteEvent", "TopologyUpdateEvent",
            "PhysicsTickEvent", "EngineErrorEvent"}
-----------------------------------------------------------------------------
(* What one event adds *)

\* No collector has subscribed to the class of drops by faulted nodes itself.
LEMMA CallsAreOnce ==
  ASSUME NEW name \in MetricNames, NEW class \in Classes
  PROVE  Calls(name, class) = IF \/ class \in Subscribed(name)
                                 \/ /\ class = "PhysicsInducedDropEvent"
                                    /\ "PacketDropEvent" \in Subscribed(name)
                              THEN 1 ELSE 0
<1> DEFINE heard == Subscribed(name) \cap BasesOf(class)
<1>1. "PhysicsInducedDropEvent" \notin Subscribed(name)
  BY DEF MetricNames, Subscribed
<1>2. CASE class # "PhysicsInducedDropEvent"
  <2>1. heard = IF class \in Subscribed(name) THEN {class} ELSE {}
    BY <1>2 DEF BasesOf
  <2>2. QED
    BY <1>2, <2>1, FS_EmptySet, FS_Singleton DEF Calls
<1>3. CASE class = "PhysicsInducedDropEvent"
  <2>1. heard = IF "PacketDropEvent" \in Subscribed(name) THEN {"PacketDropEvent"} ELSE {}
    BY <1>1, <1>3 DEF BasesOf
  <2>2. QED
    BY <1>1, <1>3, <2>1, FS_EmptySet, FS_Singleton DEF Calls
<1>4. QED
  BY <1>2, <1>3

LEMMA CountsGrow ==
  ASSUME NEW name \in MetricNames, NEW t \in Tallies, NEW class \in Classes, NEW b
  PROVE  /\ Counted(name, t, class, b) \in Tallies
         /\ \A c \in Counters : t[c] <= Counted(name, t, class, b)[c]
BY CallsAreOnce DEF Counted, Tallies

\* What the tally t has besides what it had in s.
Adds(s, t, delivered, transmitted, drops, jobs, updates) ==
  /\ t.delivered = s.delivered + delivered
  /\ t.transmitted = s.transmitted + transmitted
  /\ t.drops = s.drops + drops
  /\ t.jobs = s.jobs + jobs
  /\ t.updates = s.updates + updates

LEMMA EventAdds ==
  ASSUME NEW name \in MetricNames, NEW t \in Tallies, NEW class \in Classes, NEW b \in BOOLEAN
  PROVE  Adds(t, Counted(name, t, class, b),
              IF name = "network_metrics" /\ class = "PacketDeliveredEvent" THEN 1 ELSE 0,
              IF name = "network_metrics" /\ class = "PacketTransmitEvent" THEN 1 ELSE 0,
              IF \/ /\ class \in {"PacketDropEvent", "PhysicsInducedDropEvent"}
                    /\ name = "network_metrics" \/ (name = "compute_metrics" /\ b)
                 \/ class = "PhysicsInducedDropEvent" /\ name = "physics_metrics"
              THEN 1 ELSE 0,
              IF name = "compute_metrics" /\ class = "ComputeJobCompleteEvent" THEN 1 ELSE 0,
              IF name = "topology_metrics" /\ class = "TopologyUpdateEvent" THEN 1 ELSE 0)
<1>1. Counters = {"delivered", "transmitted", "drops", "jobs", "updates", "ticks"}
  BY DEF Counters
<1>2. \A c \in Counters : t[c] \in Nat
  BY DEF Tallies
<1>3. CASE name = "network_metrics"
  BY <1>1, <1>2, <1>3, CallsAreOnce DEF Adds, Counted, Counter, NetworkCounters, ComputeCounters,
      TopologyCounters, PhysicsCounters, Subscribed, Classes
<1>4. CASE name = "compute_metrics"
  <2>1. CASE b
    BY <1>1, <1>2, <1>4, <2>1, CallsAreOnce DEF Adds, Counted, Counter, NetworkCounters, ComputeCounters,
      TopologyCounters, PhysicsCounters, Subscribed, Classes
  <2>2. CASE ~ b
    BY <1>1, <1>2, <1>4, <2>2, CallsAreOnce DEF Adds, Counted, Counter, NetworkCounters, ComputeCounters,
      TopologyCounters, PhysicsCounters, Subscribed, Classes
  <2>3. QED
    BY <2>1, <2>2
<1>5. CASE name = "topology_metrics"
  BY <1>1, <1>2, <1>5, CallsAreOnce DEF Adds, Counted, Counter, NetworkCounters, ComputeCounters,
      TopologyCounters, PhysicsCounters, Subscribed, Classes
<1>6. CASE name = "physics_metrics"
  BY <1>1, <1>2, <1>6, CallsAreOnce DEF Adds, Counted, Counter, NetworkCounters, ComputeCounters,
      TopologyCounters, PhysicsCounters, Subscribed, Classes
<1>7. QED
  BY <1>3, <1>4, <1>5, <1>6 DEF MetricNames
-----------------------------------------------------------------------------
(* What becomes of the packets *)

IsSequence(s) == s \in Seq({s[i] : i \in DOMAIN s})

\* All packets have the fields of a header, whatever their values.
PacketsOK ==
  /\ IsSequence(packets)
  /\ \A i \in DOMAIN packets :
       /\ {"status", "hops", "type", "flops"} \subseteq DOMAIN packets[i]
       /\ packets[i].hops \in 0 .. MaxHops

LEMMA PacketsAreFinite ==
  ASSUME PacketsOK
  PROVE  /\ Len(packets) \in Nat
         /\ DOMAIN packets = 1 .. Len(packets)
         /\ \A S : IsFiniteSet(With(S))
         /\ \A S : IsFiniteSet({i \in With(S) : IsComputePacket(packets[i])})
         /\ IsFiniteSet(HopsMade)
<1>1. Len(packets) \in Nat /\ DOMAIN packets = 1 .. Len(packets)
  BY LenProperties DEF PacketsOK, IsSequence
<1>2. IsFiniteSet(DOMAIN packets)
  BY <1>1, FS_Interval
<1>3. ASSUME NEW S
      PROVE  IsFiniteSet(With(S)) /\ IsFiniteSet({i \in With(S) : IsComputePacket(packets[i])})
  <2>1. With(S) \in SUBSET DOMAIN packets
    BY DEF With
  <2>2. {i \in With(S) : IsComputePacket(packets[i])} \in SUBSET DOMAIN packets
    BY <2>1
  <2>3. QED
    BY <1>2, <2>1, <2>2, FS_Subset
<1>4. IsFiniteSet(HopsMade)
  <2>1. IsFiniteSet((DOMAIN packets) \X (1 .. MaxHops))
    <3>1. IsFiniteSet(1 .. MaxHops)
      BY FS_Interval, TimesAssumption
    <3>2. QED
      BY <1>2, <3>1, FS_Product
  <2>2. HopsMade \in SUBSET ((DOMAIN packets) \X (1 .. MaxHops))
    BY DEF HopsMade
  <2>3. QED
    BY <2>1, <2>2, FS_Subset
<1>5. QED
  BY <1>1, <1>3, <1>4

LEMMA SelfTyped ==
  ASSUME NEW S, NEW s \in Seq(S)
  PROVE  IsSequence(s)
<1> DEFINE T == {s[i] : i \in DOMAIN s}
<1>1. Len(s) \in Nat /\ DOMAIN s = 1 .. Len(s) /\ s \in [1 .. Len(s) -> S]
  BY LenProperties
<1>2. s \in [1 .. Len(s) -> T]
  BY <1>1
<1>3. s \in UNION {[1 .. k -> T] : k \in Nat}
  BY <1>1, <1>2
<1>4. QED
  BY <1>3, SeqDef DEF IsSequence

\* A sequence remains one when one of its elements is exchanged.
LEMMA Exchanged ==
  ASSUME NEW s, IsSequence(s), NEW n \in DOMAIN s, NEW e
  PROVE  IsSequence([s EXCEPT ![n] = e])
<1> DEFINE S == {s[i] : i \in DOMAIN s} \cup {e}
<1>1. s \in Seq(S)
  BY SeqMonotonic DEF IsSequence
<1>2. [s EXCEPT ![n] = e] \in Seq(S)
  BY <1>1, ExceptSeq, LenProperties
<1>3. QED
  BY <1>2, SelfTyped

LEMMA Joined ==
  ASSUME NEW s, IsSequence(s), NEW r, IsSequence(r)
  PROVE  /\ IsSequence(s \o r)
         /\ DOMAIN (s \o r) = 1 .. Len(s) + Len(r)
         /\ \A i \in 1 .. Len(s) + Len(r) :
              (s \o r)[i] = IF i <= Len(s) THEN s[i] ELSE r[i - Len(s)]
<1> DEFINE S == {s[i] : i \in DOMAIN s}
           R == {r[i] : i \in DOMAIN r}
<1>1. s \in Seq(S) /\ r \in Seq(R)
  BY DEF IsSequence
<1> HIDE DEF S, R
<1>2. s \in Seq(S \cup R) /\ r \in Seq(S \cup R)
  BY <1>1, SeqMonotonic
<1>3. /\ s \o r \in Seq(S \cup R)
      /\ Len(s \o r) = Len(s) + Len(r)
      /\ \A i \in 1 .. Len(s) + Len(r) :
           (s \o r)[i] = IF i <= Len(s) THEN s[i] ELSE r[i - Len(s)]
  BY <1>2, ConcatProperties
<1>4. IsSequence(s \o r) /\ DOMAIN (s \o r) = 1 .. Len(s \o r)
  BY <1>3, SelfTyped, LenProperties
<1>5. QED
  BY <1>3, <1>4

LEMMA FateChanges ==
  ASSUME PacketsOK, NEW n \in DOMAIN packets, NEW st, Becomes(n, st)
  PROVE  /\ PacketsOK'
         /\ \A S : With(S)' = IF st \in S THEN With(S) \cup {n} ELSE With(S) \ {n}
         /\ HopsMade' = HopsMade
         /\ \A i \in DOMAIN packets :
              IsComputePacket(packets[i])' <=> IsComputePacket(packets[i])
<1>1. packets' = [packets EXCEPT ![n] = [packets[n] EXCEPT !.status = st]]
  BY DEF Becomes
<1>2. DOMAIN packets' = DOMAIN packets
  BY <1>1
<1>3. /\ \A i \in DOMAIN packets \ {n} : packets'[i] = packets[i]
      /\ packets'[n] = [packets[n] EXCEPT !.status = st]
  BY <1>1
<1>4. /\ DOMAIN packets'[n] = DOMAIN packets[n]
      /\ packets'[n].status = st
      /\ packets'[n].hops = packets[n].hops
      /\ packets'[n].type = packets[n].type
      /\ packets'[n].flops = packets[n].flops
  BY <1>3 DEF PacketsOK
<1>5. PacketsOK'
  <2>1. IsSequence(packets)'
    <3>1. IsSequence(packets')
      BY <1>1, Exchanged DEF PacketsOK
    <3>2. QED
      BY <3>1 DEF IsSequence
  <2>2. QED
    BY <1>2, <1>3, <1>4, <2>1 DEF PacketsOK
<1>6. ASSUME NEW S
      PROVE  With(S)' = IF st \in S THEN With(S) \cup {n} ELSE With(S) \ {n}
  BY <1>2, <1>3, <1>4 DEF With
<1>7. HopsMade' = HopsMade
  <2>1. \A i \in DOMAIN packets : packets'[i].hops = packets[i].hops
    BY <1>3, <1>4
  <2>2. QED
    BY <1>2, <2>1 DEF HopsMade
<1>8. QED
  BY <1>3, <1>4, <1>5, <1>6, <1>7 DEF IsComputePacket

LEMMA HopsGrow ==
  ASSUME PacketsOK, NEW n \in DOMAIN packets, packets[n].hops < MaxHops,
         packets' = [packets EXCEPT ![n].hops = @ + 1]
  PROVE  /\ PacketsOK'
         /\ \A S : With(S)' = With(S)
         /\ HopsMade' = HopsMade \cup {<<n, packets[n].hops + 1>>}
         /\ <<n, packets[n].hops + 1>> \notin HopsMade
         /\ \A i \in DOMAIN packets :
              IsComputePacket(packets[i])' <=> IsComputePacket(packets[i])
<1> DEFINE hops == packets[n].hops + 1
<1>1. packets' = [packets EXCEPT ![n] = [packets[n] EXCEPT !.hops = hops]]
  OBVIOUS
<1>2. DOMAIN packets' = DOMAIN packets
  BY <1>1
<1>3. /\ \A i \in DOMAIN packets \ {n} : packets'[i] = packets[i]
      /\ packets'[n] = [packets[n] EXCEPT !.hops = hops]
  BY <1>1
<1>4. /\ DOMAIN packets'[n] = DOMAIN packets[n]
      /\ packets'[n].status = packets[n].status
      /\ packets'[n].hops = hops
      /\ packets'[n].type = packets[n].type
      /\ packets'[n].flops = packets[n].flops
  BY <1>3 DEF PacketsOK
<1>5. packets[n].hops \in 0 .. MaxHops /\ hops \in 1 .. MaxHops /\ MaxHops \in Nat
  BY TimesAssumption DEF PacketsOK
<1>6. PacketsOK'
  <2>1. IsSequence(packets)'
    <3>1. \A e : IsSequence([packets EXCEPT ![n] = e])
      BY Exchanged DEF PacketsOK
    <3>2. IsSequence(packets')
      BY <1>1, <3>1
    <3>3. QED
      BY <3>2 DEF IsSequence
  <2>2. QED
    BY <1>2, <1>3, <1>4, <1>5, <2>1 DEF PacketsOK
<1>7. ASSUME NEW S
      PROVE  With(S)' = With(S)
  BY <1>2, <1>3, <1>4 DEF With
<1>8. HopsMade' = HopsMade \cup {<<n, hops>>}
  <2>1. \A i \in DOMAIN packets, h \in 1 .. MaxHops :
          h <= packets'[i].hops <=> h <= packets[i].hops \/ (i = n /\ h = hops)
    BY <1>3, <1>4, <1>5
  <2>2. \A e : e \in HopsMade' <=> e \in HopsMade \cup {<<n, hops>>}
    BY <1>2, <1>5, <2>1 DEF HopsMade
  <2>3. QED
    BY <2>2
<1>9. <<n, hops>> \notin HopsMade
  BY <1>5 DEF HopsMade
<1>10. QED
  BY <1>3, <1>4, <1>6, <1>7, <1>8, <1>9 DEF IsComputePacket

\* A packet as it is published.
IsFresh(p) ==
  /\ {"status", "hops", "type", "flops"} \subseteq DOMAIN p
  /\ p.status = "published"
  /\ p.hops = 0

KeepsFates ==
  /\ PacketsOK'
  /\ \A S : "published" \notin S => With(S)' = With(S)
  /\ HopsMade' = HopsMade
  /\ \A i \in DOMAIN packets : IsComputePacket(packets[i])' <=> IsComputePacket(packets[i])

LEMMA PacketsJoin ==
  ASSUME PacketsOK, NEW r, IsSequence(r), \A i \in DOMAIN r : IsFresh(r[i]),
         packets' = packets \o r
  PROVE  KeepsFates
<1>1. /\ Len(packets) \in Nat /\ DOMAIN packets = 1 .. Len(packets)
      /\ Len(r) \in Nat /\ DOMAIN r = 1 .. Len(r)
  BY LenProperties DEF PacketsOK, IsSequence
<1>2. /\ IsSequence(packets')
      /\ DOMAIN packets' = 1 .. Len(packets) + Len(r)
      /\ \A i \in DOMAIN packets' :
           packets'[i] = IF i <= Len(packets) THEN packets[i] ELSE r[i - Len(packets)]
  BY Joined DEF PacketsOK
<1>3. \A i \in DOMAIN packets : i \in DOMAIN packets' /\ packets'[i] = packets[i]
  BY <1>1, <1>2
<1>4. \A i \in DOMAIN packets' : i \notin DOMAIN packets => IsFresh(packets'[i])
  BY <1>1, <1>2
<1>5. PacketsOK'
  <2>1. IsSequence(packets)'
    BY <1>2 DEF IsSequence
  <2>2. QED
    BY <1>3, <1>4, <2>1, TimesAssumption DEF PacketsOK, IsFresh
<1>6. ASSUME NEW S, "published" \notin S
      PROVE  With(S)' = With(S)
  BY <1>3, <1>4, <1>6 DEF With, IsFresh
<1>7. HopsMade' = HopsMade
  <2>1. \A e : e \in HopsMade' <=> e \in HopsMade
    BY <1>3, <1>4, TimesAssumption DEF HopsMade, IsFresh
  <2>2. QED
    BY <2>1
<1>8. QED
  BY <1>3, <1>5, <1>6, <1>7 DEF KeepsFates, IsComputePacket
-----------------------------------------------------------------------------
(* What the workloads publish *)

JobsOK == \A k \in DOMAIN job : "pods" \in DOMAIN job[k] /\ IsFiniteSet(job[k].pods)

IsFreshSequence(r) == IsSequence(r) /\ \A i \in DOMAIN r : IsFresh(r[i])

LEMMA HeaderIsFresh ==
  ASSUME NEW k, NEW role, NEW s, NEW d
  PROVE  IsFresh(Header(k, role, s, d))
BY DEF Header, IsFresh

LEMMA PublishedIsFresh ==
  ASSUME NEW k, NEW role, NEW pairs, IsFiniteSet(pairs)
  PROVE  IsFreshSequence(Published(k, role, pairs))
<1> DEFINE r == Published(k, role, pairs)
           At(i) == LET e == CHOOSE e \in pairs : Cardinality({f \in pairs : InOrder(f, e)}) = i
                    IN  Header(k, role, e[1], e[2])
           n == Cardinality(pairs)
<1>1. n \in Nat
  BY FS_CardinalityType
<1>2. r = [i \in 1 .. n |-> At(i)]
  BY DEF Published
<1>3. \A i \in 1 .. n : IsFresh(At(i))
  BY HeaderIsFresh
<1> HIDE DEF At, n
<1>4. r \in [1 .. n -> {At(i) : i \in 1 .. n}]
  BY <1>2
<1>5. r \in UNION {[1 .. j -> {At(i) : i \in 1 .. n}] : j \in Nat}
  BY <1>1, <1>4
<1>6. r \in Seq({At(i) : i \in 1 .. n})
  BY <1>5, SeqDef
<1>7. IsSequence(r)
  BY <1>6, SelfTyped
<1>8. QED
  BY <1>2, <1>3, <1>7 DEF IsFreshSequence

LEMMA RoundIsFresh ==
  ASSUME NEW k, IsFiniteSet(job[k].pods)
  PROVE  IsFreshSequence(Round(k))
<1> DEFINE pods == job[k].pods
           server == Server(job[k].workload, pods)
           workers == pods \ {server}
           gathers == Published(k, "gather", workers \X {server})
           broadcasts == Published(k, "broadcast", {server} \X workers)
<1>1. /\ IsFiniteSet(pods \X pods)
      /\ IsFiniteSet(workers \X {server})
      /\ IsFiniteSet({server} \X workers)
  <2>1. IsFiniteSet({server}) /\ IsFiniteSet(workers)
    BY FS_Singleton, FS_RemoveElement
  <2>2. QED
    BY <2>1, FS_Product
<1>2. IsFiniteSet({e \in pods \X pods : e[1] # e[2]})
  BY <1>1, FS_Subset
<1>3. /\ IsFreshSequence(Published(k, "gradient", {e \in pods \X pods : e[1] # e[2]}))
      /\ IsFreshSequence(Published(k, "gradient", workers \X {server}))
      /\ IsFreshSequence(gathers)
      /\ IsFreshSequence(broadcasts)
  BY <1>1, <1>2, PublishedIsFresh
<1>4. IsFreshSequence(gathers \o broadcasts)
  <2> HIDE DEF gathers, broadcasts
  <2>1. /\ Len(gathers) \in Nat /\ DOMAIN gathers = 1 .. Len(gathers)
        /\ Len(broadcasts) \in Nat /\ DOMAIN broadcasts = 1 .. Len(broadcasts)
    BY <1>3, LenProperties DEF IsFreshSequence, IsSequence
  <2>2. QED
    BY <1>3, <2>1, Joined DEF IsFreshSequence
<1>5. IsFreshSequence(FederatedRound(k))
  BY <1>4 DEF FederatedRound
<1>6. IsFreshSequence(TrainingRound(k))
  <2>1. CASE job[k].workload.pattern = "all_reduce"
    BY <1>3, <2>1 DEF TrainingRound
  <2>2. CASE job[k].workload.pattern # "all_reduce"
    BY <1>3, <2>2 DEF TrainingRound
  <2>3. QED
    BY <2>1, <2>2
<1>7. QED
  BY <1>5, <1>6 DEF Round

LEMMA FatesUnchanged ==
  ASSUME PacketsOK, UNCHANGED packets
  PROVE  KeepsFates
BY DEF KeepsFates, PacketsOK, IsSequence, With, HopsMade, IsComputePacket

LEMMA WorkKeepsFates ==
  ASSUME PacketsOK, JobsOK, NEW k \in DOMAIN job, Work(k)
  PROVE  KeepsFates /\ JobsOK'
<1>1. ASSUME Emit(k)
      PROVE  KeepsFates
  <2>1. PICK s, d : packets' = Append(packets, Header(k, "query", s, d))
    BY <1>1 DEF Emit
  <2> DEFINE h == Header(k, "query", s, d)
  <2>2. IsFresh(h)
    BY HeaderIsFresh
  <2> HIDE DEF h
  <2>3. <<h>> \in Seq({h}) /\ DOMAIN <<h>> = {1} /\ <<h>>[1] = h
    OBVIOUS
  <2>4. IsSequence(<<h>>) /\ \A i \in DOMAIN <<h>> : IsFresh(<<h>>[i])
    BY <2>2, <2>3, SelfTyped
  <2>5. packets' = packets \o <<h>>
    BY <2>1 DEF h, PacketsOK, IsSequence
  <2>6. QED
    BY <2>4, <2>5, PacketsJoin
<1>2. ASSUME PublishRound(k)
      PROVE  KeepsFates
  <2>1. IsFreshSequence(Round(k))
    BY RoundIsFresh DEF JobsOK
  <2>2. packets' = packets \o Round(k)
    BY <1>2 DEF PublishRound
  <2>3. QED
    BY <2>1, <2>2, PacketsJoin DEF IsFreshSequence
<1>3. KeepsFates
  BY <1>1, <1>2, FatesUnchanged
     DEF Work, PoissonQuery, OnOffQuery, OnOffPause, OnOffWindow, BurstQuery, BurstPause
<1>4. JobsOK'
  BY DEF JobsOK, Work, PublishRound, PoissonQuery, OnOffQuery, OnOffPause, OnOffWindow,
         BurstQuery, BurstPause
<1>5. QED
  BY <1>3, <1>4
-----------------------------------------------------------------------------
(* What the collectors make of a step *)

TallyOK ==
  /\ collectors \in Seq(MetricNames)
  /\ tally \in [DOMAIN collectors -> Tallies]
  /\ version \in Nat

\* How an event of class, about a packet to compute if b, changes the fates.
Shift(class, b) ==
  /\ Cardinality(With({"delivered", "computed"}))' =
       Cardinality(With({"delivered", "computed"})) + IF class = "PacketDeliveredEvent" THEN 1 ELSE 0
  /\ Cardinality(HopsMade)' =
       Cardinality(HopsMade) + IF class = "PacketTransmitEvent" THEN 1 ELSE 0
  /\ Cardinality(With(Lost))' =
       Cardinality(With(Lost))
         + IF class \in {"PacketDropEvent", "PhysicsInducedDropEvent"} THEN 1 ELSE 0
  /\ Cardinality({i \in With(Lost) : IsComputePacket(packets[i])})' =
       Cardinality({i \in With(Lost) : IsComputePacket(packets[i])})
         + IF b /\ class \in {"PacketDropEvent", "PhysicsInducedDropEvent"} THEN 1 ELSE 0
  /\ Cardinality(With({"computed"}))' =
       Cardinality(With({"computed"})) + IF class = "ComputeJobCompleteEvent" THEN 1 ELSE 0
  /\ Cardinality(With({"blamed"}))' =
       Cardinality(With({"blamed"})) + IF class = "PhysicsInducedDropEvent" THEN 1 ELSE 0
  /\ version' = version + IF class = "TopologyUpdateEvent" THEN 1 ELSE 0

AllMatch == \A i \in DOMAIN collectors : MatchesFates(collectors[i], tally[i])

LEMMA ShiftIsCounted ==
  ASSUME TallyOK, AllMatch, NEW class \in Classes, NEW b \in BOOLEAN, Shift(class, b),
         UNCHANGED collectors,
         tally' = [i \in DOMAIN tally |-> Counted(collectors[i], tally[i], class, b)]
  PROVE  AllMatch' /\ tally' \in [DOMAIN collectors -> Tallies]
<1> SUFFICES ASSUME NEW i \in DOMAIN collectors
             PROVE  MatchesFates(collectors[i], tally[i])' /\ tally'[i] \in Tallies
  BY DEF AllMatch, TallyOK
<1> DEFINE name == collectors[i]
           t == tally[i]
<1>1. name \in MetricNames /\ t \in Tallies /\ MatchesFates(name, t)
  BY LenProperties DEF TallyOK, AllMatch
<1>2. collectors'[i] = name /\ tally'[i] = Counted(name, t, class, b)
  BY DEF TallyOK
<1>3. tally'[i] \in Tallies
  BY <1>1, <1>2, CountsGrow
<1> HIDE DEF name, t
<1> DEFINE u == Counted(name, t, class, b)
<1>4. Adds(t, u,
              IF name = "network_metrics" /\ class = "PacketDeliveredEvent" THEN 1 ELSE 0,
              IF name = "network_metrics" /\ class = "PacketTransmitEvent" THEN 1 ELSE 0,
              IF \/ /\ class \in {"PacketDropEvent", "PhysicsInducedDropEvent"}
                    /\ name = "network_metrics" \/ (name = "compute_metrics" /\ b)
                 \/ class = "PhysicsInducedDropEvent" /\ name = "physics_metrics"
              THEN 1 ELSE 0,
              IF name = "compute_metrics" /\ class = "ComputeJobCompleteEvent" THEN 1 ELSE 0,
              IF name = "topology_metrics" /\ class = "TopologyUpdateEvent" THEN 1 ELSE 0)
  BY <1>1, EventAdds
<1> HIDE DEF u
<1>5. CASE name = "network_metrics"
  BY <1>1, <1>2, <1>3, <1>4, <1>5 DEF Adds, Shift, MatchesFates, u
<1>6. CASE name = "compute_metrics"
  BY <1>1, <1>2, <1>3, <1>4, <1>6 DEF Adds, Shift, MatchesFates, u
<1>7. CASE name = "topology_metrics"
  BY <1>1, <1>2, <1>3, <1>4, <1>7 DEF Adds, Shift, MatchesFates, u
<1>8. CASE name = "physics_metrics"
  BY <1>1, <1>2, <1>3, <1>4, <1>8 DEF Adds, Shift, MatchesFates, u
<1>9. QED
  BY <1>1, <1>3, <1>5, <1>6, <1>7, <1>8 DEF MetricNames
\* An event that is not about a packet.
LEMMA FatesDoNotShift ==
  ASSUME KeepsFates, PacketsOK, TallyOK, NEW b \in BOOLEAN
  PROVE  /\ UNCHANGED version => Shift("EngineErrorEvent", b) /\ Shift("PhysicsTickEvent", b)
         /\ version' = version + 1 => Shift("TopologyUpdateEvent", b)
<1>1. /\ With({"delivered", "computed"})' = With({"delivered", "computed"})
      /\ With(Lost)' = With(Lost)
      /\ With({"computed"})' = With({"computed"})
      /\ With({"blamed"})' = With({"blamed"})
      /\ HopsMade' = HopsMade
  BY DEF KeepsFates, Lost
<1>2. With(Lost) \subseteq DOMAIN packets
  BY DEF With
<1>3. {i \in With(Lost) : IsComputePacket(packets[i])}'
        = {i \in With(Lost) : IsComputePacket(packets[i])}
  BY <1>1, <1>2 DEF KeepsFates
<1>4. /\ \A S : Cardinality(With(S)) \in Nat
      /\ Cardinality({i \in With(Lost) : IsComputePacket(packets[i])}) \in Nat
      /\ Cardinality(HopsMade) \in Nat
  BY PacketsAreFinite, FS_CardinalityType
<1>5. version \in Nat
  BY DEF TallyOK
<1>6. /\ Cardinality(With({"delivered", "computed"}))' = Cardinality(With({"delivered", "computed"})) + 0
      /\ Cardinality(With(Lost))' = Cardinality(With(Lost)) + 0
      /\ Cardinality(With({"computed"}))' = Cardinality(With({"computed"})) + 0
      /\ Cardinality(With({"blamed"}))' = Cardinality(With({"blamed"})) + 0
      /\ Cardinality(HopsMade)' = Cardinality(HopsMade) + 0
  BY <1>1, <1>4 DEF Lost
<1>7. Cardinality({i \in With(Lost) : IsComputePacket(packets[i])})'
        = Cardinality({i \in With(Lost) : IsComputePacket(packets[i])}) + 0
  <2> DEFINE jobs == {i \in With(Lost) : IsComputePacket(packets[i])}
  <2>1. jobs' = jobs /\ Cardinality(jobs) \in Nat
    BY <1>3, <1>4
  <2> HIDE DEF jobs
  <2>2. Cardinality(jobs)' = Cardinality(jobs) + 0
    BY <2>1
  <2>3. QED
    BY <2>2 DEF jobs
<1>8. UNCHANGED version => Shift("EngineErrorEvent", b) /\ Shift("PhysicsTickEvent", b)
  BY <1>5, <1>6, <1>7 DEF Shift, Lost
<1>9. version' = version + 1 => Shift("TopologyUpdateEvent", b)
  BY <1>5, <1>6, <1>7 DEF Shift, Lost
<1>10. QED
  BY <1>8, <1>9

LEMMA TransmitShifts ==
  ASSUME PacketsOK, TallyOK, NEW n \in DOMAIN packets, Transmit(n)
  PROVE  /\ Shift("PacketTransmitEvent", IsComputePacket(packets[n]))
         /\ PacketsOK'
<1> DEFINE hop == <<n, packets[n].hops + 1>>
<1>1. /\ PacketsOK'
      /\ \A S : With(S)' = With(S)
      /\ HopsMade' = HopsMade \cup {hop}
      /\ hop \notin HopsMade
      /\ \A i \in DOMAIN packets :
           IsComputePacket(packets[i])' <=> IsComputePacket(packets[i])
  BY HopsGrow DEF Transmit
<1>2. With(Lost) \subseteq DOMAIN packets
  BY DEF With
<1>3. {i \in With(Lost) : IsComputePacket(packets[i])}'
        = {i \in With(Lost) : IsComputePacket(packets[i])}
  <2>1. With(Lost)' = With(Lost)
    BY <1>1 DEF Lost
  <2>2. QED
    BY <1>1, <1>2, <2>1
<1>4. /\ \A S : Cardinality(With(S)) \in Nat
      /\ Cardinality({i \in With(Lost) : IsComputePacket(packets[i])}) \in Nat
      /\ IsFiniteSet(HopsMade) /\ Cardinality(HopsMade) \in Nat
  BY PacketsAreFinite, FS_CardinalityType
<1>5. Cardinality(HopsMade)' = Cardinality(HopsMade) + 1
  BY <1>1, <1>4, FS_AddElement
<1>6. version' = version /\ version \in Nat
  BY DEF Transmit, PacketUnchanged, TallyOK
<1>7. /\ With({"delivered", "computed"})' = With({"delivered", "computed"})
      /\ With(Lost)' = With(Lost)
      /\ With({"computed"})' = With({"computed"})
      /\ With({"blamed"})' = With({"blamed"})
  BY <1>1 DEF Lost
<1>8. /\ Cardinality(With({"delivered", "computed"}))' = Cardinality(With({"delivered", "computed"})) + 0
      /\ Cardinality(With(Lost))' = Cardinality(With(Lost)) + 0
      /\ Cardinality(With({"computed"}))' = Cardinality(With({"computed"})) + 0
      /\ Cardinality(With({"blamed"}))' = Cardinality(With({"blamed"})) + 0
  BY <1>4, <1>7 DEF Lost
<1>9. Cardinality({i \in With(Lost) : IsComputePacket(packets[i])})'
        = Cardinality({i \in With(Lost) : IsComputePacket(packets[i])}) + 0
  <2> DEFINE jobs == {i \in With(Lost) : IsComputePacket(packets[i])}
  <2>1. jobs' = jobs /\ Cardinality(jobs) \in Nat
    BY <1>3, <1>4
  <2> HIDE DEF jobs
  <2>2. Cardinality(jobs)' = Cardinality(jobs) + 0
    BY <2>1
  <2>3. QED
    BY <2>2 DEF jobs
<1>10. Shift("PacketTransmitEvent", IsComputePacket(packets[n]))
  BY <1>5, <1>6, <1>8, <1>9 DEF Shift, Lost
<1>11. QED
  BY <1>1, <1>10

\* A status that is set where it was not.
LEMMA OneMore ==
  ASSUME PacketsOK, NEW n \in DOMAIN packets, NEW st, Becomes(n, st),
         NEW S, packets[n].status \notin S
  PROVE  Cardinality(With(S))' = Cardinality(With(S)) + IF st \in S THEN 1 ELSE 0
<1>1. With(S)' = IF st \in S THEN With(S) \cup {n} ELSE With(S) \ {n}
  BY FateChanges
<1>2. n \notin With(S)
  BY DEF With
<1>3. IsFiniteSet(With(S)) /\ Cardinality(With(S)) \in Nat
  BY PacketsAreFinite, FS_CardinalityType
<1>4. CASE st \in S
  BY <1>1, <1>2, <1>3, <1>4, FS_AddElement
<1>5. CASE st \notin S
  <2>1. With(S)' = With(S)
    BY <1>1, <1>2, <1>5
  <2>2. QED
    BY <1>3, <1>5, <2>1
<1>6. QED
  BY <1>4, <1>5

LEMMA OneMoreToCompute ==
  ASSUME PacketsOK, NEW n \in DOMAIN packets, NEW st, Becomes(n, st),
         packets[n].status \notin Lost
  PROVE  Cardinality({i \in With(Lost) : IsComputePacket(packets[i])})' =
           Cardinality({i \in With(Lost) : IsComputePacket(packets[i])})
             + IF st \in Lost /\ IsComputePacket(packets[n]) THEN 1 ELSE 0
<1> DEFINE jobs == {i \in With(Lost) : IsComputePacket(packets[i])}
<1>1. With(Lost)' = IF st \in Lost THEN With(Lost) \cup {n} ELSE With(Lost) \ {n}
  BY FateChanges DEF Lost
<1>2. n \notin With(Lost) /\ With(Lost) \subseteq DOMAIN packets
  BY DEF With
<1>3. \A i \in DOMAIN packets : IsComputePacket(packets[i])' <=> IsComputePacket(packets[i])
  BY FateChanges
<1>4. jobs' = IF st \in Lost /\ IsComputePacket(packets[n]) THEN jobs \cup {n} ELSE jobs
  BY <1>1, <1>2, <1>3
<1>5. IsFiniteSet(jobs) /\ Cardinality(jobs) \in Nat /\ n \notin jobs
  BY <1>2, PacketsAreFinite, FS_CardinalityType
<1> HIDE DEF jobs
<1>6. Cardinality(jobs') = Cardinality(jobs)
                            + IF st \in Lost /\ IsComputePacket(packets[n]) THEN 1 ELSE 0
  <2>1. Cardinality(jobs \cup {n}) = Cardinality(jobs) + 1
    BY <1>5, FS_AddElement
  <2>2. QED
    BY <1>4, <1>5, <2>1
<1>7. QED
  BY <1>6 DEF jobs

LEMMA FateShifts ==
  ASSUME PacketsOK, TallyOK, NEW n \in DOMAIN packets, Deliver(n) \/ Drop(n) \/ Compute(n)
  PROVE  /\ PacketsOK'
         /\ \E class \in Classes :
              /\ Shift(class, IsComputePacket(packets[n]))
              /\ AnnounceOf(packets[n], class)
<1> DEFINE old == packets[n].status
           b == IsComputePacket(packets[n])
<1>1. PICK st \in {"delivered", "dropped", "blamed", "computed"}, class \in Classes :
        /\ Becomes(n, st)
        /\ AnnounceOf(packets[n], class)
        /\ <<old, st, class>> \in {<<"published", "delivered", "PacketDeliveredEvent">>,
                                   <<"published", "dropped", "PacketDropEvent">>,
                                   <<"published", "blamed", "PhysicsInducedDropEvent">>,
                                   <<"delivered", "computed", "ComputeJobCompleteEvent">>}
  BY DEF Deliver, Drop, Compute, Classes
<1>2. /\ PacketsOK'
      /\ \A S : With(S)' = IF st \in S THEN With(S) \cup {n} ELSE With(S) \ {n}
      /\ HopsMade' = HopsMade
  BY <1>1, FateChanges
<1>3. version' = version /\ version \in Nat
  BY DEF Deliver, Drop, Compute, PacketUnchanged, TallyOK
<1>4. Cardinality(HopsMade) \in Nat
  BY PacketsAreFinite, FS_CardinalityType
<1>5. old \notin Lost /\ old \notin {"computed"} /\ old \notin {"blamed"}
  BY <1>1 DEF Lost
<1>6. /\ Cardinality(With(Lost))' = Cardinality(With(Lost)) + IF st \in Lost THEN 1 ELSE 0
      /\ Cardinality(With({"computed"}))' =
           Cardinality(With({"computed"})) + IF st \in {"computed"} THEN 1 ELSE 0
      /\ Cardinality(With({"blamed"}))' =
           Cardinality(With({"blamed"})) + IF st \in {"blamed"} THEN 1 ELSE 0
  BY <1>1, <1>5, OneMore DEF Lost
<1>7. Cardinality(With({"delivered", "computed"}))' =
        Cardinality(With({"delivered", "computed"})) + IF st = "delivered" THEN 1 ELSE 0
  <2>1. CASE old = "published"
    BY <1>1, <2>1, OneMore
  <2>2. CASE old = "delivered"
    <3>1. n \in With({"delivered", "computed"}) /\ st = "computed"
      BY <1>1, <2>2 DEF With
    <3>2. With({"delivered", "computed"})' = With({"delivered", "computed"})
      BY <1>2, <3>1
    <3>3. Cardinality(With({"delivered", "computed"})) \in Nat
      BY PacketsAreFinite, FS_CardinalityType
    <3>4. QED
      BY <3>1, <3>2, <3>3
  <2>3. QED
    BY <1>1, <2>1, <2>2
<1>8. Cardinality({i \in With(Lost) : IsComputePacket(packets[i])})' =
        Cardinality({i \in With(Lost) : IsComputePacket(packets[i])})
          + IF st \in Lost /\ b THEN 1 ELSE 0
  BY <1>1, <1>5, OneMoreToCompute DEF Lost
<1>9. Shift(class, b)
  <2> HIDE DEF old, b
  <2>1. QED
    BY <1>1, <1>2, <1>3, <1>4, <1>6, <1>7, <1>8 DEF Shift, Lost
<1>10. QED
  BY <1>1, <1>2, <1>9
-----------------------------------------------------------------------------
(* Summaries *)

LEMMA LatestExists ==
  ASSUME NEW S, NEW s \in Seq(S), NEW name, NEW n \in DOMAIN s, s[n] = name
  PROVE  \E i \in DOMAIN s : s[i] = name /\ \A j \in DOMAIN s : s[j] = name => j <= i
<1> DEFINE distances == {d \in 0 .. Len(s) : Len(s) - d \in DOMAIN s /\ s[Len(s) - d] = name}
<1>1. Len(s) \in Nat /\ DOMAIN s = 1 .. Len(s)
  BY LenProperties
<1>2. \A i \in DOMAIN s : Len(s) - i \in 0 .. Len(s) /\ Len(s) - (Len(s) - i) = i
  BY <1>1
<1>3. distances \subseteq Nat /\ Len(s) - n \in distances
  BY <1>1, <1>2
<1>4. \E x \in distances : \A y \in distances : ~ (<<y, x>> \in OpToRel(<, Nat))
  <2> HIDE DEF distances
  <2>1. distances # {} /\ distances \subseteq Nat
    BY <1>3
  <2>2. QED
    BY <2>1, WFMin, NatLessThanWellFounded
<1>5. PICK x \in distances : \A y \in distances : ~ (y < x)
  BY <1>3, <1>4 DEF OpToRel
<1>6. \A j \in DOMAIN s : s[j] = name => Len(s) - j \in distances
  BY <1>2
<1>7. \A j \in DOMAIN s : s[j] = name => j <= Len(s) - x
  <2> SUFFICES ASSUME NEW j \in DOMAIN s, s[j] = name PROVE j <= Len(s) - x
    OBVIOUS
  <2>1. j \in Nat /\ Len(s) - j \in distances
    BY <1>1, <1>6
  <2>2. Len(s) - j \in Nat /\ x \in Nat /\ ~ (Len(s) - j < x)
    <3> HIDE DEF distances
    <3>1. QED
      BY <1>3, <1>5, <2>1
  <2>3. QED
    BY <1>1, <2>1, <2>2
<1>8. Len(s) - x \in DOMAIN s /\ s[Len(s) - x] = name
  OBVIOUS
<1>9. QED
  BY <1>7, <1>8

Latest(name) ==
  CHOOSE i \in DOMAIN collectors :
    collectors[i] = name /\ \A j \in DOMAIN collectors : collectors[j] = name => j <= i

LEMMA SummaryOfName ==
  ASSUME TallyOK, NEW name \in DOMAIN Summaries
  PROVE  Latest(name) \in DOMAIN collectors /\ Summaries[name] = tally[Latest(name)]
<1>1. PICK n \in DOMAIN collectors : collectors[n] = name
  BY DEF Summaries
<1>2. \E i \in DOMAIN collectors :
         collectors[i] = name /\ \A j \in DOMAIN collectors : collectors[j] = name => j <= i
  BY <1>1, LatestExists DEF TallyOK
<1>3. QED
  BY <1>2 DEF Latest, Summaries

SnapshotOK ==
  /\ DOMAIN snapshot \subseteq DOMAIN Summaries
  /\ \A name \in DOMAIN snapshot : \A c \in Counters :
       snapshot[name][c] \in Nat /\ snapshot[name][c] <= Summaries[name][c]

LEMMA SnapshotIsBelow ==
  ASSUME TallyOK, snapshot' = Summaries, UNCHANGED <<collectors, tally>>
  PROVE  SnapshotOK'
<1>1. Summaries' = Summaries
  BY DEF Summaries
<1>2. \A name \in DOMAIN Summaries : \A c \in Counters : Summaries[name][c] \in Nat
  BY SummaryOfName DEF TallyOK, Tallies
<1>3. QED
  BY <1>1, <1>2 DEF SnapshotOK

LEMMA SummariesGrow ==
  ASSUME TallyOK, SnapshotOK, UNCHANGED <<collectors, snapshot>>, TallyOK',
         \A i \in DOMAIN collectors : \A c \in Counters : tally[i][c] <= tally'[i][c]
  PROVE  SnapshotOK'
<1>1. DOMAIN Summaries' = DOMAIN Summaries
  BY DEF Summaries
<1>2. ASSUME NEW name \in DOMAIN Summaries
      PROVE  /\ Latest(name) \in DOMAIN collectors
             /\ Summaries[name] = tally[Latest(name)]
             /\ Summaries'[name] = tally'[Latest(name)]
  <2>1. Latest(name) \in DOMAIN collectors /\ Summaries[name] = tally[Latest(name)]
    BY SummaryOfName
  <2>2. Summaries'[name] = tally'[Latest(name)]
    BY DEF Summaries, Latest
  <2>3. QED
    BY <2>1, <2>2
<1>3. ASSUME NEW name \in DOMAIN snapshot, NEW c \in Counters
      PROVE  snapshot[name][c] \in Nat /\ snapshot[name][c] <= Summaries'[name][c]
  <2>1. /\ Latest(name) \in DOMAIN collectors
        /\ Summaries[name] = tally[Latest(name)]
        /\ Summaries'[name] = tally'[Latest(name)]
    BY <1>2 DEF SnapshotOK
  <2>2. tally[Latest(name)][c] \in Nat /\ tally'[Latest(name)][c] \in Nat
    BY <2>1 DEF TallyOK, Tallies
  <2>3. snapshot[name][c] \in Nat /\ snapshot[name][c] <= Summaries[name][c]
    BY DEF SnapshotOK
  <2>4. QED
    BY <2>1, <2>2, <2>3
<1>4. QED
  BY <1>1, <1>3 DEF SnapshotOK
-----------------------------------------------------------------------------
(* The invariant *)

SpecOK == phase \in {"built", "raised", "running"} => spec.pods \in Int

TallyInv ==
  /\ request \in Requests
  /\ SpecOK
  /\ JobsOK
  /\ PacketsOK
  /\ TallyOK
  /\ AllMatch
  /\ SnapshotOK
  /\ phase = "ended" => results = Summaries

\* A step whose event is counted leaves every tally what it should be.
LEMMA CountedStep ==
  ASSUME TallyInv, PacketsOK', JobsOK', NEW class \in Classes, NEW b \in BOOLEAN, Shift(class, b),
         tally' = [i \in DOMAIN tally |-> Counted(collectors[i], tally[i], class, b)],
         UNCHANGED <<request, collectors, spec, snapshot>>,
         phase' # "ended", phase' # "built", phase \in {"raised", "running"}
  PROVE  TallyInv'
<1>1. AllMatch' /\ tally' \in [DOMAIN collectors -> Tallies]
  BY ShiftIsCounted DEF TallyInv
<1>2. TallyOK'
  BY <1>1 DEF TallyInv, TallyOK, Shift
<1>3. \A i \in DOMAIN collectors : \A c \in Counters : tally[i][c] <= tally'[i][c]
  BY LenProperties, CountsGrow DEF TallyInv, TallyOK
<1>4. SnapshotOK'
  BY <1>2, <1>3, SummariesGrow DEF TallyInv
<1>5. SpecOK'
  BY DEF TallyInv, SpecOK
<1>6. QED
  BY <1>1, <1>2, <1>4, <1>5 DEF TallyInv

\* What a step without an event leaves as it is.
LEMMA UncountedStep ==
  ASSUME TallyInv, KeepsFates, UNCHANGED <<collectors, tally, version>>
  PROVE  PacketsOK' /\ TallyOK' /\ AllMatch' /\ Summaries' = Summaries
<1>1. PacketsOK' /\ TallyOK' /\ Summaries' = Summaries
  BY DEF TallyInv, KeepsFates, TallyOK, Summaries
<1>2. Shift("EngineErrorEvent", FALSE)
  BY FatesDoNotShift DEF TallyInv
<1>3. ASSUME NEW i \in DOMAIN collectors
      PROVE  MatchesFates(collectors[i], tally[i])'
  <2> DEFINE name == collectors[i]
             t == tally[i]
  <2>1. name \in MetricNames /\ t \in Tallies /\ MatchesFates(name, t)
    BY LenProperties DEF TallyInv, TallyOK, AllMatch
  <2>2. collectors'[i] = name /\ tally'[i] = t
    OBVIOUS
  <2>3. \A c \in {"delivered", "transmitted", "drops", "jobs", "updates"} : t[c] \in Nat
    BY <2>1 DEF Tallies, Counters
  <2> HIDE DEF name, t
  <2>4. CASE name = "network_metrics"
    BY <1>2, <2>1, <2>2, <2>3, <2>4 DEF Shift, MatchesFates
  <2>5. CASE name = "compute_metrics"
    BY <1>2, <2>1, <2>2, <2>3, <2>5 DEF Shift, MatchesFates
  <2>6. CASE name = "topology_metrics"
    BY <1>2, <2>1, <2>2, <2>3, <2>6 DEF Shift, MatchesFates
  <2>7. CASE name = "physics_metrics"
    BY <1>2, <2>1, <2>2, <2>3, <2>7 DEF Shift, MatchesFates
  <2>8. QED
    BY <2>1, <2>4, <2>5, <2>6, <2>7 DEF MetricNames
<1>4. QED
  BY <1>1, <1>3 DEF AllMatch

\* The parts of a step, and what a simulation is constructed of.
LEMMA StepParts ==
  ASSUME [Next]_vars, request \in Requests
  PROVE  /\ request' = request
         /\ \/ Run \/ Turn \/ PacketStep
            \/ \E s : Construct(s) /\ s.pods \in Int /\ s.collectors \in Seq(MetricNames)
            \/ /\ UNCHANGED <<workVars, metricsVars, spec, runs, graph, version, faulted, snapshot,
                             results>>
               /\ phase' = phase \/ phase' \in {"refused", "configured"}
<1>1. request' = request
  BY DEF Next, vars, Configure, Launch, FromLayers, Simulate, Sweep, sessionVars
<1>2. CollectorNames = MetricNames
  BY DEF CollectorNames, MetricNames
<1>3. CASE Launch
  <2>1. CASE Refuse
    BY <1>1, <2>1 DEF Refuse
  <2>2. CASE Construct(Translated(cfg')) /\ IsBuildable(Translated(cfg'))
    BY <1>1, <1>2, <2>2 DEF IsBuildable
  <2>3. QED
    BY <1>3, <2>1, <2>2 DEF Launch
<1>4. CASE FromLayers
  BY <1>1, <1>4, LayersAssumption DEF FromLayers, IsSpecification
<1>5. CASE Configure
  BY <1>1, <1>5 DEF Configure, Refuse
<1>6. QED
  BY <1>1, <1>3, <1>4, <1>5 DEF Next, vars, Simulate, Sweep, NextSimulation, simVars

LEMMA NothingYet ==
  ASSUME NEW s, Construct(s), s.collectors \in Seq(MetricNames)
  PROVE  PacketsOK' /\ TallyOK' /\ AllMatch' /\ SnapshotOK'
<1>1. packets' = <<>> /\ snapshot' = <<>> /\ version' = 0
  BY DEF Construct
<1>2. DOMAIN packets' = {} /\ DOMAIN snapshot' = {}
  BY <1>1
<1>3. PacketsOK'
  <2>1. packets' \in Seq({packets'[i] : i \in DOMAIN packets'})
    BY <1>1
  <2>2. QED
    BY <1>2, <2>1 DEF PacketsOK, IsSequence
<1>4. NoCounts \in Tallies /\ \A c \in Counters : NoCounts[c] = 0
  BY DEF NoCounts, Tallies
<1>5. collectors' \in Seq(MetricNames) /\ tally' = [i \in DOMAIN collectors' |-> NoCounts]
  BY DEF Construct, WithNetwork, MetricNames
<1>6. TallyOK'
  BY <1>1, <1>4, <1>5 DEF TallyOK
<1>7. /\ \A S : With(S)' = {}
      /\ {i \in With(Lost) : IsComputePacket(packets[i])}' = {}
      /\ HopsMade' = {}
  BY <1>2 DEF With, HopsMade
<1>8. Cardinality({}) = 0
  BY FS_EmptySet
<1>9. AllMatch'
  <2> SUFFICES ASSUME NEW i \in DOMAIN collectors' PROVE MatchesFates(collectors[i], tally[i])'
    BY DEF AllMatch
  <2> DEFINE name == collectors'[i]
             t == tally'[i]
  <2>1. name \in MetricNames
    BY <1>5, LenProperties
  <2>2. /\ t.delivered = 0 /\ t.transmitted = 0 /\ t.drops = 0
        /\ t.jobs = 0 /\ t.updates = 0
    BY <1>4, <1>5 DEF Counters
  <2> HIDE DEF name, t
  <2>3. CASE name = "network_metrics"
    BY <1>7, <1>8, <2>2, <2>3 DEF MatchesFates, Lost, name, t
  <2>4. CASE name = "compute_metrics"
    BY <1>7, <1>8, <2>2, <2>4 DEF MatchesFates, Lost, name, t
  <2>5. CASE name = "topology_metrics"
    BY <1>1, <2>2, <2>5 DEF MatchesFates, name, t
  <2>6. CASE name = "physics_metrics"
    BY <1>7, <1>8, <2>2, <2>6 DEF MatchesFates, name, t
  <2>7. QED
    BY <2>1, <2>3, <2>4, <2>5, <2>6 DEF MetricNames
<1>10. QED
  BY <1>2, <1>3, <1>6, <1>9 DEF SnapshotOK

LEMMA PodsAreFinite ==
  ASSUME spec.pods \in Int
  PROVE  IsFiniteSet(ActivePods)
<1>1. IsFiniteSet({"pod"} \X (1 .. spec.pods))
  <2>1. IsFiniteSet({"pod"})
    BY FS_Singleton
  <2>2. IsFiniteSet(1 .. spec.pods)
    BY FS_Interval
  <2>3. QED
    BY <2>1, <2>2, FS_Product
<1>2. ActivePods \in SUBSET ({"pod"} \X (1 .. spec.pods))
  BY DEF ActivePods, Pods
<1>3. QED
  BY <1>1, <1>2, FS_Subset

LEMMA RunKeepsJobs ==
  ASSUME JobsOK, SpecOK, Run
  PROVE  JobsOK'
<1>1. IsFiniteSet(ActivePods)
  BY PodsAreFinite DEF SpecOK, Run
<1>2. PICK generators :
        job' = [k \in DOMAIN job \cup generators |->
                  IF k \in generators
                  THEN Begun(spec.workloads[k[2]], ActivePods, Registry, now) ELSE job[k]]
  BY DEF Run
<1>3. \A k \in generators :
        LET begun == Begun(spec.workloads[k[2]], ActivePods, Registry, now)
        IN  "pods" \in DOMAIN begun /\ begun.pods = ActivePods
  BY DEF Begun
<1>4. QED
  BY <1>1, <1>2, <1>3 DEF JobsOK

LEMMA TurnKeepsTallies ==
  ASSUME TallyInv, Turn, UNCHANGED request
  PROVE  TallyInv'
<1>1. ASSUME NEW k, TopologyUpdate(k)
      PROVE  TallyInv'
  <2>1. PacketsOK' /\ JobsOK' /\ KeepsFates
    BY <1>1, FatesUnchanged DEF TopologyUpdate, TallyInv, JobsOK, KeepsFates
  <2>2. CASE version' = version + 1 /\ Announce("TopologyUpdateEvent") /\ UNCHANGED phase
    <3>1. Shift("TopologyUpdateEvent", FALSE)
      BY <2>1, <2>2, FatesDoNotShift DEF TallyInv
    <3>2. QED
      BY <1>1, <2>1, <2>2, <3>1, CountedStep DEF TopologyUpdate, Announce, Classes, Resumes
  <2>3. CASE phase' = "raised" /\ UNCHANGED <<version, tally>>
    BY <1>1, <2>1, <2>3, UncountedStep DEF TopologyUpdate, TallyInv, SpecOK, Resumes, SnapshotOK
  <2>4. QED
    BY <1>1, <2>2, <2>3 DEF TopologyUpdate, Raise
<1>2. ASSUME NEW k, PhysicsTick(k)
      PROVE  TallyInv'
  <2>1. PacketsOK' /\ JobsOK' /\ KeepsFates
    BY <1>2, FatesUnchanged DEF PhysicsTick, TallyInv, JobsOK, KeepsFates
  <2>2. Shift("PhysicsTickEvent", FALSE) /\ Shift("EngineErrorEvent", FALSE)
    BY <1>2, <2>1, FatesDoNotShift DEF TallyInv, PhysicsTick
  <2>3. CASE Announce("PhysicsTickEvent")
    BY <1>2, <2>1, <2>2, <2>3, CountedStep DEF PhysicsTick, Announce, Classes, Resumes
  <2>4. CASE Announce("EngineErrorEvent")
    BY <1>2, <2>1, <2>2, <2>4, CountedStep DEF PhysicsTick, Announce, Classes, Resumes
  <2>5. QED
    BY <1>2, <2>3, <2>4 DEF PhysicsTick
<1>3. ASSUME NEW k, Snapshot(k)
      PROVE  TallyInv'
  <2>1. KeepsFates
    BY <1>3, FatesUnchanged DEF Snapshot, TallyInv
  <2>2. SnapshotOK'
    BY <1>3, SnapshotIsBelow DEF Snapshot, metricsVars, TallyInv
  <2>3. QED
    BY <1>3, <2>1, <2>2, UncountedStep
       DEF Snapshot, metricsVars, TallyInv, SpecOK, JobsOK, Resumes
<1>4. ASSUME NEW k, WorkloadTurn(k)
      PROVE  TallyInv'
  <2>1. CASE Work(k) /\ UNCHANGED tally
    <3>1. KeepsFates /\ JobsOK'
      BY <1>4, <2>1, WorkKeepsFates DEF WorkloadTurn, TallyInv
    <3>2. QED
      BY <1>4, <2>1, <3>1, UncountedStep DEF WorkloadTurn, TallyInv, SpecOK, SnapshotOK, Resumes
  <2>2. CASE Announce("EngineErrorEvent") /\ UNCHANGED <<job, packets>>
    <3>1. KeepsFates /\ PacketsOK' /\ JobsOK'
      BY <2>2, FatesUnchanged DEF TallyInv, JobsOK, KeepsFates
    <3>2. Shift("EngineErrorEvent", FALSE)
      BY <1>4, <3>1, FatesDoNotShift DEF TallyInv, WorkloadTurn
    <3>3. QED
      BY <1>4, <2>2, <3>1, <3>2, CountedStep DEF WorkloadTurn, Announce, Classes, Resumes
  <2>3. QED
    BY <1>4, <2>1, <2>2 DEF WorkloadTurn
<1>5. CASE Finish
  <2>1. KeepsFates
    BY <1>5, FatesUnchanged DEF Finish, TallyInv
  <2>2. QED
    BY <1>5, <2>1, UncountedStep DEF Finish, metricsVars, TallyInv, SpecOK, JobsOK, SnapshotOK
<1>6. QED
  BY <1>1, <1>2, <1>3, <1>4, <1>5 DEF Turn

LEMMA PacketStepKeepsTallies ==
  ASSUME TallyInv, PacketStep, UNCHANGED request
  PROVE  TallyInv'
<1>1. PICK n \in DOMAIN packets : Transmit(n) \/ Deliver(n) \/ Drop(n) \/ Compute(n)
  BY DEF PacketStep
<1>2. /\ PacketsOK'
      /\ \E class \in Classes :
           Shift(class, IsComputePacket(packets[n])) /\ AnnounceOf(packets[n], class)
  <2>1. CASE Transmit(n)
    BY <2>1, TransmitShifts DEF Transmit, TallyInv, Classes
  <2>2. CASE Deliver(n) \/ Drop(n) \/ Compute(n)
    BY <2>2, FateShifts DEF TallyInv
  <2>3. QED
    BY <1>1, <2>1, <2>2
<1>3. PICK class \in Classes :
        Shift(class, IsComputePacket(packets[n])) /\ AnnounceOf(packets[n], class)
  BY <1>2
<1>4. /\ UNCHANGED <<job, collectors, spec, phase, snapshot>>
      /\ phase = "running"
  BY <1>1 DEF Transmit, Deliver, Drop, Compute, PacketUnchanged
<1>5. JobsOK'
  BY <1>4 DEF TallyInv, JobsOK
<1>6. IsComputePacket(packets[n]) \in BOOLEAN
  BY DEF IsComputePacket
<1>7. QED
  BY <1>2, <1>3, <1>4, <1>5, <1>6, CountedStep DEF AnnounceOf

LEMMA TalliesAreKept == Spec => []TallyInv
<1>1. Init => TallyInv
  <2> SUFFICES ASSUME Init PROVE TallyInv
    OBVIOUS
  <2>1. PacketsOK /\ TallyOK /\ AllMatch /\ SnapshotOK
    <3>1. /\ DOMAIN packets = {} /\ DOMAIN snapshot = {} /\ DOMAIN collectors = {}
          /\ packets \in Seq({packets[i] : i \in DOMAIN packets})
          /\ collectors \in Seq(MetricNames) /\ tally \in [DOMAIN collectors -> Tallies]
          /\ version \in Nat
      BY DEF Init, InitSimulation
    <3>2. QED
      BY <3>1 DEF PacketsOK, IsSequence, TallyOK, AllMatch, SnapshotOK
  <2>2. QED
    BY <2>1 DEF Init, InitSimulation, TallyInv, SpecOK, JobsOK
<1>2. TallyInv /\ [Next]_vars => TallyInv'
  <2> SUFFICES ASSUME TallyInv, [Next]_vars PROVE TallyInv'
    OBVIOUS
  <2>1. UNCHANGED request
    BY StepParts DEF TallyInv
  <2>2. CASE Run
    <3>1. JobsOK'
      BY <2>2, RunKeepsJobs DEF TallyInv
    <3>2. KeepsFates
      BY <2>2, FatesUnchanged DEF Run, TallyInv
    <3>3. QED
      BY <2>1, <2>2, <3>1, <3>2, UncountedStep DEF Run, metricsVars, TallyInv, SpecOK, SnapshotOK
  <2>3. CASE Turn
    BY <2>1, <2>3, TurnKeepsTallies
  <2>4. CASE PacketStep
    BY <2>1, <2>4, PacketStepKeepsTallies
  <2>5. ASSUME NEW s, Construct(s), s.pods \in Int, s.collectors \in Seq(MetricNames)
        PROVE  TallyInv'
    <3>1. PacketsOK' /\ TallyOK' /\ AllMatch' /\ SnapshotOK'
      BY <2>5, NothingYet
    <3>2. QED
      BY <2>1, <2>5, <3>1 DEF Construct, TallyInv, SpecOK, JobsOK
  <2>6. CASE /\ UNCHANGED <<workVars, metricsVars, spec, version, snapshot, results>>
             /\ phase' = phase \/ phase' \in {"refused", "configured"}
    <3>1. KeepsFates
      BY <2>6, FatesUnchanged DEF workVars, TallyInv
    <3>2. QED
      BY <2>1, <2>6, <3>1, UncountedStep
         DEF workVars, metricsVars, TallyInv, SpecOK, JobsOK, SnapshotOK
  <2>7. QED
    BY <2>2, <2>3, <2>4, <2>5, <2>6, StepParts DEF TallyInv
<1>3. QED
  BY <1>1, <1>2, PTL DEF Spec

\* For every constellation, all collectors and workloads, any number of packets
\* and of exceptions: each collector has counted each fate of each packet once,
\* no summary of the past exceeds one of today, and the results are the last.
THEOREM TalliesAreRight == Spec => []TalliesMatchFates
<1>1. TallyInv => TalliesMatchFates
  BY DEF TallyInv, AllMatch, SnapshotOK, TalliesMatchFates
<1>2. QED
  BY <1>1, TalliesAreKept, PTL
-----------------------------------------------------------------------------
(* The beat *)

\* Where in time the n-th interval begins.
Beat(n) == n * TopologyInterval

\* The processes that can be waiting: those of the loops, one per call of run, and
\* those of the workloads.
ProcessesOK ==
  /\ \A k \in DOMAIN job : k[1] = "workload"
  /\ \A k \in DOMAIN due : k \in DOMAIN job \/ \E l \in Loops, r \in 1 .. runs : k = <<l, 0, r>>

\* Nothing but a tick advances the ticks, and the next tick is as many units away
\* from the start.
TicksOnTime ==
  runs = 1 /\ "physics" \notin spec.unreliable =>
    \A i \in DOMAIN collectors :
      collectors[i] = "physics_metrics" =>
        IF spec.models = {} THEN tally[i].ticks = 0
        ELSE /\ <<"physics", 0, 1>> \in DOMAIN due
             /\ due[<<"physics", 0, 1>>] = tally[i].ticks + 1
             /\ due[<<"physics", 0, 1>>] <= Duration

\* An exception ends the process of the topology, and the next call of run starts
\* one anew: there is one of them at a time, which an exception has set back by one
\* interval.
BeatInv ==
  /\ phase \in {"built", "running", "raised"} => runs \in Nat /\ version \in Nat /\ ProcessesOK
  /\ phase = "built" =>
       /\ runs = 0 /\ version = 0 /\ now = 0 /\ DOMAIN due = {}
       /\ \A i \in DOMAIN collectors : tally[i].ticks = 0
  /\ phase = "running" =>
       /\ runs >= 1
       /\ \A k \in DOMAIN due : k[1] = "topology" => k = <<"topology", 0, runs>>
       /\ <<"topology", 0, runs>> \in DOMAIN due
       /\ due[<<"topology", 0, runs>>] = Beat(version + runs)
       /\ Beat(version + runs - 1) < Duration
       /\ TicksOnTime
  /\ phase = "raised" =>
       /\ runs >= 1
       /\ \A k \in DOMAIN due : k[1] # "topology"
       /\ now = Beat(version + runs)
       /\ Beat(version + runs) < Duration
  /\ LoopsKeepTheBeat

LEMMA Quotient ==
  ASSUME NEW q \in Nat, NEW t \in Nat \ {0}, NEW d \in Nat, q * t <= d, d < (q + 1) * t
  PROVE  d \div t = q
OBVIOUS

LEMMA BeatFacts ==
  ASSUME NEW n \in Nat
  PROVE  /\ Beat(n) \in Nat
         /\ Beat(n + 1) = Beat(n) + TopologyInterval
         /\ Beat(0) = 0
         /\ Duration \in Nat \ {0} /\ TopologyInterval \in Nat \ {0}
         /\ Beat(n) < Duration /\ Beat(n + 1) >= Duration => (Duration - 1) \div TopologyInterval = n
<1>1. Duration \in Nat \ {0} /\ TopologyInterval \in Nat \ {0}
  BY TimesAssumption
<1>2. Beat(n) \in Nat /\ Beat(n + 1) = Beat(n) + TopologyInterval /\ Beat(0) = 0
  BY <1>1 DEF Beat
<1>3. ASSUME Beat(n) < Duration, Beat(n + 1) >= Duration
      PROVE  (Duration - 1) \div TopologyInterval = n
  <2>1. Duration - 1 \in Nat /\ Beat(n) <= Duration - 1 /\ Duration - 1 < Beat(n + 1)
    BY <1>1, <1>2, <1>3
  <2>2. QED
    BY <1>1, <2>1, Quotient DEF Beat
<1>4. QED
  BY <1>1, <1>2, <1>3

\* What the tick counter of a physics collector does on an event.
LEMMA TickCounted ==
  ASSUME NEW t \in Tallies, NEW class \in Classes, NEW b
  PROVE  /\ t.ticks \in Nat
         /\ Counted("physics_metrics", t, class, b).ticks =
              IF class = "PhysicsTickEvent" THEN t.ticks + 1 ELSE t.ticks
BY CallsAreOnce DEF Tallies, Counters, Counted, Counter, PhysicsCounters, Subscribed, MetricNames, Classes

LEMMA TicksCounted ==
  ASSUME TallyOK, NEW class \in Classes, NEW b, UNCHANGED collectors,
         tally' = [i \in DOMAIN tally |-> Counted(collectors[i], tally[i], class, b)]
  PROVE  \A i \in DOMAIN collectors :
           collectors[i] = "physics_metrics" =>
             /\ tally[i].ticks \in Nat
             /\ tally'[i].ticks = IF class = "PhysicsTickEvent" THEN tally[i].ticks + 1
                                  ELSE tally[i].ticks
BY TickCounted DEF TallyOK

\* A step of the packets, or anything else that leaves processes and ticks alone.
LEMMA BeatUndisturbed ==
  ASSUME BeatInv, UNCHANGED <<due, now, runs, version, spec, phase, collectors>>,
         DOMAIN job' = DOMAIN job,
         \A i \in DOMAIN collectors :
           collectors[i] = "physics_metrics" => tally'[i].ticks = tally[i].ticks,
         phase = "built" => UNCHANGED tally
  PROVE  BeatInv'
BY DEF BeatInv, ProcessesOK, Loops, TicksOnTime, LoopsKeepTheBeat

LEMMA RunStarts ==
  ASSUME Run
  PROVE  /\ runs' = runs + 1 /\ phase' = "running" /\ phase \in {"built", "raised"}
         /\ UNCHANGED <<now, packets, metricsVars, spec, version>>
         /\ \E generators :
              /\ \A k \in generators : k[1] = "workload" /\ k[3] = runs + 1
              /\ DOMAIN job' = DOMAIN job \cup generators
              /\ DOMAIN due' = DOMAIN due \cup {<<l, 0, runs + 1>> : l \in Loops} \cup generators
         /\ \A k \in DOMAIN due : due'[k] = due[k]
         /\ \A l \in Loops : <<l, 0, runs + 1>> \notin DOMAIN due =>
              due'[<<l, 0, runs + 1>>] = now + LoopInterval(l)
<1> DEFINE loops == {<<l, 0, runs'>> : l \in Loops}
           generators == {<<"workload", i, runs'>> : i \in Starting}
<1>1. PICK wait :
       due' = [k \in DOMAIN due \cup loops \cup generators |->
                 IF k \in DOMAIN due THEN due[k]
                 ELSE now + IF k \in loops THEN LoopInterval(k[1]) ELSE wait[k]]
  BY DEF Run
<1>2. DOMAIN job' = DOMAIN job \cup generators
  BY DEF Run
<1>3. runs' = runs + 1 /\ phase' = "running" /\ phase \in {"built", "raised"}
      /\ UNCHANGED <<now, packets, metricsVars, spec, version>>
  BY DEF Run
<1>4. \A k \in generators : k[1] = "workload" /\ k[3] = runs + 1
  BY <1>3
<1> HIDE DEF generators
<1>5. /\ DOMAIN due' = DOMAIN due \cup loops \cup generators
      /\ \A k \in DOMAIN due : due'[k] = due[k]
      /\ \A k \in loops : k \notin DOMAIN due => due'[k] = now + LoopInterval(k[1])
  BY <1>1
<1>6. \A l \in Loops : <<l, 0, runs + 1>> \notin DOMAIN due =>
              due'[<<l, 0, runs + 1>>] = now + LoopInterval(l)
  BY <1>3, <1>5
<1>7. QED
  BY <1>2, <1>3, <1>4, <1>5, <1>6

LEMMA RunKeepsBeat ==
  ASSUME BeatInv, Run, TallyOK
  PROVE  BeatInv'
<1>1. /\ runs' = runs + 1 /\ phase' = "running" /\ phase \in {"built", "raised"}
      /\ UNCHANGED <<now, metricsVars, spec, version>>
      /\ \A k \in DOMAIN due : due'[k] = due[k]
      /\ \A l \in Loops : <<l, 0, runs + 1>> \notin DOMAIN due =>
           due'[<<l, 0, runs + 1>>] = now + LoopInterval(l)
  BY RunStarts
<1>2. PICK generators :
        /\ \A k \in generators : k[1] = "workload" /\ k[3] = runs + 1
        /\ DOMAIN job' = DOMAIN job \cup generators
        /\ DOMAIN due' = DOMAIN due \cup {<<l, 0, runs + 1>> : l \in Loops} \cup generators
  BY RunStarts
<1>3. runs \in Nat /\ version \in Nat /\ ProcessesOK
  BY <1>1 DEF BeatInv
<1>4. Loops' = Loops /\ "topology" \in Loops
  BY <1>1 DEF Loops
<1>5. ProcessesOK'
  BY <1>1, <1>2, <1>3, <1>4 DEF ProcessesOK
<1>6. now = Beat(version + runs) /\ Beat(version + runs) < Duration
      /\ \A k \in DOMAIN due : k[1] # "topology"
  BY <1>1, BeatFacts DEF BeatInv
<1>7. <<"topology", 0, runs + 1>> \notin DOMAIN due
  BY <1>6
<1>8. /\ <<"topology", 0, runs'>> \in DOMAIN due'
      /\ due'[<<"topology", 0, runs'>>] = Beat(version + runs) + TopologyInterval
  BY <1>1, <1>2, <1>4, <1>6, <1>7 DEF LoopInterval
<1>9. Beat(version + runs) + TopologyInterval = Beat(version' + runs')
  BY <1>1, <1>3, BeatFacts
<1>10. version' + runs' - 1 = version + runs
  BY <1>1, <1>3
<1>11. \A k \in DOMAIN due' : k[1] = "topology" => k = <<"topology", 0, runs'>>
  BY <1>1, <1>2, <1>6
<1>12. TicksOnTime'
  <2> SUFFICES ASSUME runs' = 1, NEW i \in DOMAIN collectors,
                      collectors[i] = "physics_metrics"
               PROVE  IF spec.models = {} THEN tally[i].ticks = 0
                      ELSE /\ <<"physics", 0, 1>> \in DOMAIN due'
                           /\ due'[<<"physics", 0, 1>>] = tally[i].ticks + 1
                           /\ due'[<<"physics", 0, 1>>] <= Duration
    BY <1>1 DEF TicksOnTime, metricsVars
  <2>1. phase = "built" /\ runs = 0
    BY <1>1, <1>3 DEF BeatInv
  <2>2. tally[i].ticks = 0 /\ DOMAIN due = {} /\ now = 0
    BY <2>1 DEF BeatInv
  <2>3. CASE spec.models # {}
    <3>1. "physics" \in Loops
      BY <2>3 DEF Loops
    <3>2. <<"physics", 0, 1>> \in DOMAIN due' /\ due'[<<"physics", 0, 1>>] = now + 1
      BY <1>1, <1>2, <2>1, <2>2, <3>1 DEF LoopInterval
    <3>3. QED
      BY <2>2, <2>3, <3>2, TimesAssumption
  <2>4. QED
    BY <2>2, <2>3
<1>13. QED
  BY <1>1, <1>3, <1>5, <1>6, <1>8, <1>9, <1>10, <1>11, <1>12 DEF BeatInv, LoopsKeepTheBeat
LEMMA PacketStepKeepsBeat ==
  ASSUME BeatInv, PacketStep, TallyOK
  PROVE  BeatInv'
<1>1. PICK n \in DOMAIN packets : Transmit(n) \/ Deliver(n) \/ Drop(n) \/ Compute(n)
  BY DEF PacketStep
<1>2. PICK class \in Classes \ {"PhysicsTickEvent"} : AnnounceOf(packets[n], class)
  BY <1>1 DEF Transmit, Deliver, Drop, Compute, Classes
<1>3. PacketUnchanged /\ phase = "running"
  BY <1>1 DEF Transmit, Deliver, Drop, Compute
<1>4. \A i \in DOMAIN collectors :
        collectors[i] = "physics_metrics" => tally'[i].ticks = tally[i].ticks
  BY <1>2, <1>3, TicksCounted DEF AnnounceOf, PacketUnchanged
<1>5. QED
  BY <1>3, <1>4, BeatUndisturbed DEF PacketUnchanged

LEMMA TurnKeepsBeat ==
  ASSUME BeatInv, Turn, TallyOK
  PROVE  BeatInv'
<1> DEFINE last == version + runs
           kt == <<"topology", 0, runs>>
           kp == <<"physics", 0, 1>>
<1>1. /\ phase = "running" /\ runs \in Nat /\ version \in Nat /\ ProcessesOK /\ runs >= 1
      /\ \A k \in DOMAIN due : k[1] = "topology" => k = kt
      /\ kt \in DOMAIN due /\ due[kt] = Beat(last) /\ Beat(last - 1) < Duration
      /\ TicksOnTime
  BY DEF BeatInv, Turn, TopologyUpdate, PhysicsTick, Snapshot, WorkloadTurn, Finish, Resumes
<1>2. /\ last \in Nat /\ last - 1 \in Nat /\ (last - 1) + 1 = last
      /\ Beat(last) \in Nat /\ Beat(last + 1) = Beat(last) + TopologyInterval
      /\ Duration \in Nat \ {0} /\ TopologyInterval \in Nat \ {0}
  BY <1>1, BeatFacts
<1> HIDE DEF last
<1>3. ASSUME NEW k \in DOMAIN due, TopologyUpdate(k)
      PROVE  BeatInv'
  <2>1. k = kt /\ due[kt] < Duration /\ now' = Beat(last) /\ UNCHANGED <<job, collectors, spec, runs>>
    BY <1>1, <1>3 DEF TopologyUpdate, Resumes
  <2>2. CASE version' = version + 1 /\ Sleep(k, TopologyInterval)
             /\ Announce("TopologyUpdateEvent") /\ UNCHANGED phase
    <3>1. /\ due' = [due EXCEPT ![kt] = Beat(last) + TopologyInterval]
      BY <1>1, <2>1, <2>2 DEF Sleep
    <3>2. version' + runs' = last + 1 /\ version' + runs' - 1 = last
      BY <1>1, <2>1, <2>2 DEF last
    <3>3. \A i \in DOMAIN collectors :
            collectors[i] = "physics_metrics" => tally'[i].ticks = tally[i].ticks
      BY <2>1, <2>2, TicksCounted DEF Announce, Classes
    <3>4. ProcessesOK'
      BY <1>1, <2>1, <3>1 DEF ProcessesOK, Loops
    <3>5. TicksOnTime'
      <4>1. \A k1 \in DOMAIN due : k1 # kt => k1 \in DOMAIN due' /\ due'[k1] = due[k1]
        BY <3>1
      <4>2. kp # kt
        OBVIOUS
      <4>3. QED
        BY <1>1, <2>1, <3>3, <4>1, <4>2 DEF TicksOnTime
    <3>6. due'[kt] = Beat(last + 1) /\ kt \in DOMAIN due' /\ DOMAIN due' = DOMAIN due
      BY <1>1, <1>2, <3>1
    <3>7. version' \in Nat /\ runs' = runs /\ phase' = "running"
      BY <1>1, <2>1, <2>2
    <3>8. Beat(last) < Duration
      BY <1>1, <2>1
    <3>9. QED
      BY <1>1, <3>2, <3>4, <3>5, <3>6, <3>7, <3>8 DEF BeatInv, LoopsKeepTheBeat
  <2>3. CASE Raise(k) /\ UNCHANGED <<version, tally>>
    <3>1. phase' = "raised" /\ DOMAIN due' = DOMAIN due \ {kt}
      BY <2>1, <2>3 DEF Raise, Return
    <3>2. ProcessesOK'
      BY <1>1, <2>1, <3>1 DEF ProcessesOK, Loops
    <3>3. QED
      BY <1>1, <1>2, <2>1, <2>3, <3>1, <3>2 DEF BeatInv, LoopsKeepTheBeat, last
  <2>4. QED
    BY <1>3, <2>2, <2>3 DEF TopologyUpdate
<1>4. ASSUME NEW k \in DOMAIN due, PhysicsTick(k)
      PROVE  BeatInv'
  <2>1. /\ k[1] = "physics" /\ due[k] < Duration
        /\ due' = [due EXCEPT ![k] = due[k] + 1]
        /\ UNCHANGED <<job, collectors, spec, phase, runs, version>>
    BY <1>4 DEF PhysicsTick, Resumes, Sleep
  <2>2. DOMAIN due' = DOMAIN due /\ \A j \in DOMAIN due : j # k => due'[j] = due[j]
    BY <2>1
  <2>3. k # kt
    BY <2>1
  <2>4. ProcessesOK'
    BY <1>1, <2>1, <2>2 DEF ProcessesOK, Loops
  <2>5. TicksOnTime'
    <3> SUFFICES ASSUME runs = 1, "physics" \notin spec.unreliable,
                        NEW i \in DOMAIN collectors, collectors[i] = "physics_metrics"
                 PROVE  IF spec.models = {} THEN tally'[i].ticks = 0
                        ELSE /\ kp \in DOMAIN due' /\ due'[kp] = tally'[i].ticks + 1
                             /\ due'[kp] <= Duration
      BY <2>1 DEF TicksOnTime
    <3>1. k \notin DOMAIN job
      BY <1>1, <2>1 DEF ProcessesOK
    <3>2. PICK l \in Loops, r \in 1 .. runs : k = <<l, 0, r>>
      BY <1>1, <3>1 DEF ProcessesOK
    <3>3. l = "physics" /\ r = 1 /\ spec.models # {}
      BY <2>1, <3>2 DEF Loops
    <3>4. k = kp
      BY <3>2, <3>3
    <3>5. due[kp] = tally[i].ticks + 1 /\ kp \in DOMAIN due
      BY <1>1, <3>3 DEF TicksOnTime
    <3>6. tally'[i].ticks = tally[i].ticks + 1 /\ tally[i].ticks \in Nat
      <4>1. Announce("PhysicsTickEvent")
        BY <1>4 DEF PhysicsTick
      <4>2. QED
        BY <2>1, <4>1, TicksCounted DEF Announce, Classes
    <3>7. due'[kp] = due[kp] + 1 /\ kp \in DOMAIN due'
      BY <2>1, <3>4, <3>5
    <3>8. QED
      BY <1>2, <2>1, <3>3, <3>4, <3>5, <3>6, <3>7
  <2>6. QED
    BY <1>1, <1>2, <2>1, <2>2, <2>3, <2>4, <2>5 DEF BeatInv, LoopsKeepTheBeat, last
<1>5. ASSUME NEW k \in DOMAIN due, k[1] # "topology", k[1] # "physics",
             DOMAIN due' \subseteq DOMAIN due, DOMAIN due \ {k} \subseteq DOMAIN due',
             \A j \in DOMAIN due : j # k => due'[j] = due[j],
             UNCHANGED <<collectors, spec, phase, runs, version>>,
             DOMAIN job' = DOMAIN job,
             \A i \in DOMAIN collectors :
               collectors[i] = "physics_metrics" => tally'[i].ticks = tally[i].ticks
      PROVE  BeatInv'
  <2>1. k # kt /\ k # kp
    BY <1>5
  <2>2. ProcessesOK'
    BY <1>1, <1>5 DEF ProcessesOK, Loops
  <2>3. TicksOnTime'
    <3>1. kp \in DOMAIN due => kp \in DOMAIN due' /\ due'[kp] = due[kp]
      BY <1>5, <2>1
    <3>2. QED
      BY <1>1, <1>5, <3>1 DEF TicksOnTime
  <2>4. kt \in DOMAIN due' /\ due'[kt] = due[kt]
    BY <1>1, <1>5, <2>1
  <2>5. \A j \in DOMAIN due' : j[1] = "topology" => j = kt
    BY <1>1, <1>5
  <2>6. QED
    BY <1>1, <1>5, <2>2, <2>3, <2>4, <2>5 DEF BeatInv, LoopsKeepTheBeat, last
<1>6. ASSUME NEW k \in DOMAIN due, Snapshot(k)
      PROVE  BeatInv'
  BY <1>5, <1>6 DEF Snapshot, Sleep, metricsVars
<1>7. ASSUME NEW k \in DOMAIN due, WorkloadTurn(k)
      PROVE  BeatInv'
  <2>1. k[1] = "workload" /\ UNCHANGED <<collectors, spec, phase, runs, version>>
    BY <1>1, <1>7 DEF WorkloadTurn, ProcessesOK
  <2>2. CASE Work(k) /\ UNCHANGED tally
    <3>1. DOMAIN job' = DOMAIN job
      BY <2>2 DEF Work, PublishRound, PoissonQuery, OnOffQuery, OnOffPause, OnOffWindow,
                  BurstQuery, BurstPause
    <3>2. Return(k) \/ \E d : Sleep(k, d)
      BY <2>2 DEF Work, PublishRound, PoissonQuery, OnOffQuery, OnOffPause, OnOffWindow,
                  BurstQuery, BurstPause
    <3>3. QED
      BY <1>5, <2>1, <2>2, <3>1, <3>2 DEF Return, Sleep
  <2>3. CASE Return(k) /\ Announce("EngineErrorEvent") /\ UNCHANGED <<job, packets>>
    <3>1. \A i \in DOMAIN collectors :
            collectors[i] = "physics_metrics" => tally'[i].ticks = tally[i].ticks
      BY <2>1, <2>3, TicksCounted DEF Announce, Classes
    <3>2. QED
      BY <1>5, <2>1, <2>3, <3>1 DEF Return
  <2>4. QED
    BY <1>7, <2>2, <2>3 DEF WorkloadTurn
<1>8. CASE Finish
  <2>1. Beat(last) >= Duration /\ phase' = "ended"
        /\ UNCHANGED <<due, collectors, tally, spec, runs, version>>
    BY <1>1, <1>8 DEF Finish, metricsVars
  <2>2. (Duration - 1) \div TopologyInterval = last - 1
    BY <1>1, <1>2, <2>1, BeatFacts
  <2>3. version = (Duration - 1) \div TopologyInterval - (runs - 1)
    BY <1>1, <2>2 DEF last
  <2>4. ASSUME runs = 1, "physics" \notin spec.unreliable,
               NEW i \in DOMAIN collectors, collectors[i] = "physics_metrics"
        PROVE  tally[i].ticks = IF spec.models = {} THEN 0 ELSE Duration - 1
    <3>1. CASE spec.models # {}
      <4>1. kp \in DOMAIN due /\ due[kp] = tally[i].ticks + 1 /\ due[kp] <= Duration
        BY <1>1, <2>4, <3>1 DEF TicksOnTime
      <4>2. due[kp] >= Duration
        BY <1>8, <4>1 DEF Finish
      <4>3. tally[i].ticks \in Nat
        BY TickCounted DEF TallyOK, Classes
      <4>4. QED
        BY <1>2, <3>1, <4>1, <4>2, <4>3
    <3>2. CASE spec.models = {}
      BY <1>1, <2>4, <3>2 DEF TicksOnTime
    <3>3. QED
      BY <3>1, <3>2
  <2>5. QED
    BY <2>1, <2>3, <2>4 DEF BeatInv, LoopsKeepTheBeat
<1>9. QED
  BY <1>3, <1>4, <1>6, <1>7, <1>8 DEF Turn

LEMMA BeatStarts ==
  ASSUME NEW s, Construct(s)
  PROVE  BeatInv'
<1>1. \A i \in DOMAIN collectors' : tally'[i].ticks = 0
  BY DEF Construct, NoCounts, Counters
<1>2. /\ phase' = "built" /\ runs' = 0 /\ version' = 0 /\ now' = 0
      /\ DOMAIN due' = {} /\ DOMAIN job' = {}
  BY DEF Construct
<1>3. QED
  BY <1>1, <1>2 DEF BeatInv, ProcessesOK, LoopsKeepTheBeat

LEMMA BeatIsKept == Spec => []BeatInv
<1>1. Init => BeatInv
  BY DEF Init, InitSimulation, BeatInv, LoopsKeepTheBeat
<1>2. BeatInv /\ TallyInv /\ [Next]_vars => BeatInv'
  <2> SUFFICES ASSUME BeatInv, TallyInv, [Next]_vars PROVE BeatInv'
    OBVIOUS
  <2>1. TallyOK /\ request \in Requests
    BY DEF TallyInv
  <2>2. CASE /\ UNCHANGED <<workVars, metricsVars, spec, runs, graph, version, faulted, snapshot,
                            results>>
             /\ phase' = phase \/ phase' \in {"refused", "configured"}
    <3>1. CASE phase' = phase
      BY <2>2, <3>1, BeatUndisturbed DEF workVars, metricsVars
    <3>2. CASE phase' \in {"refused", "configured"}
      BY <3>2 DEF BeatInv, LoopsKeepTheBeat
    <3>3. QED
      BY <2>2, <3>1, <3>2
  <2>3. QED
    BY <2>1, <2>2, StepParts, RunKeepsBeat, TurnKeepsBeat, PacketStepKeepsBeat, BeatStarts
<1>3. QED
  BY <1>1, <1>2, TalliesAreKept, PTL DEF Spec

\* However long the intervals are and however often an exception has ended a call
\* of run and it has been called again: one rebuild per interval is made, but for
\* the one that each exception cost, and physics ticks every unit of a run that
\* nothing disturbs.
THEOREM TheBeatIsKept == Spec => []LoopsKeepTheBeat
<1>1. BeatInv => LoopsKeepTheBeat
  BY DEF BeatInv
<1>2. QED
  BY <1>1, BeatIsKept, PTL
=============================================================================
