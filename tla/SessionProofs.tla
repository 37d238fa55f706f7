----------------------------- MODULE SessionProofs -----------------------------
(***************************************************************************)
(* Whatever is asked for: links lead both ways and the satellites hold     *)
(* together, the sweep puts every result in its place and its rows in the  *)
(* order of the serial loop, a round of training is sent in full, each     *)
(* simulation of a command is built as it was asked for and truly          *)
(* reported, and no process is late.                                       *)
(***************************************************************************)
EXTENDS TallyProofs, FunctionTheorems

\* The parts of a step that concern one simulation.
LEMMA NextParts ==
  ASSUME [Next]_vars
  PROVE  \/ Run \/ Turn \/ PacketStep
         \/ \E s : Construct(s)
         \/ UNCHANGED <<workVars, metricsVars, spec, runs, graph, version, faulted, snapshot, results>>
BY DEF Next, vars, Configure, Launch, FromLayers, Simulate, Sweep, Refuse, NextSimulation, simVars
-----------------------------------------------------------------------------
LEMMA BothWaysIsMutual ==
  ASSUME NEW A, NEW B, NEW S, S \subseteq A \X B
  PROVE  IsMutual(BothWays(S))
<1> SUFFICES ASSUME NEW e \in BothWays(S) PROVE <<e[2], e[1]>> \in BothWays(S)
  BY DEF IsMutual
<1>1. CASE e \in S
  BY <1>1 DEF BothWays
<1>2. CASE e \notin S
  <2>1. PICK l \in S : e = <<l[2], l[1]>>
    BY <1>2 DEF BothWays
  <2>2. l = <<l[1], l[2]>>
    OBVIOUS
  <2>3. QED
    BY <2>1, <2>2 DEF BothWays
<1>3. QED
  BY <1>1, <1>2

LEMMA GraphAtIsMutual ==
  ASSUME NEW t
  PROVE  IsMutual(GraphAt(t))
<1> DEFINE view == View(spec.size, t)
           isl == {l \in IslLinks(spec.size, Sats) : spec.sight => l \in view.sight}
           gsl == {l \in Sats \X Grounds : l \in view.above}
           own == {l \in Pods \X Sats : l[2] \in Nearest(view, Sats, l[1])}
<1>1. \E A, B : isl \subseteq A \X B
  <2>1. CASE Sats = Satellites(spec.size)
    BY <2>1 DEF IslLinks, InPlane, AcrossPlanes
  <2>2. CASE Sats # Satellites(spec.size)
    BY <2>2 DEF IslLinks, RingOf
  <2>3. QED
    BY <2>1, <2>2
<1>2. gsl \subseteq Sats \X Grounds /\ own \subseteq Pods \X Sats
  OBVIOUS
<1>3. IsMutual(BothWays(isl)) /\ IsMutual(BothWays(gsl)) /\ IsMutual(BothWays(own))
  <2>1. PICK A, B : isl \subseteq A \X B
    BY <1>1
  <2> HIDE DEF isl, gsl, own
  <2>2. QED
    BY <1>2, <2>1, BothWaysIsMutual
<1>4. GraphAt(t) = BothWays(isl) \cup BothWays(gsl) \cup BothWays(own)
  BY DEF GraphAt, BuildGraph
<1>5. QED
  BY <1>3, <1>4 DEF IsMutual

GraphInv == runs \in Nat /\ LinksLeadBothWays

\* Whatever the constellation, the links and the geometry, and however often
\* the graph has been rebuilt, who can be sent to can answer.
THEOREM GraphIsMutual == Spec => []LinksLeadBothWays
<1>1. Init => GraphInv
  BY DEF Init, InitSimulation, GraphInv, LinksLeadBothWays
<1>2. GraphInv /\ [Next]_vars => GraphInv'
  <2> SUFFICES ASSUME GraphInv, [Next]_vars PROVE GraphInv'
    OBVIOUS
  <2>1. CASE Run
    BY <2>1, GraphAtIsMutual DEF Run, GraphInv, LinksLeadBothWays, IsMutual
  <2>2. ASSUME NEW k, TopologyUpdate(k)
        PROVE  GraphInv'
    BY <2>2, GraphAtIsMutual DEF TopologyUpdate, GraphInv, LinksLeadBothWays, IsMutual
  <2>3. CASE UNCHANGED <<runs, graph>>
    BY <2>3 DEF GraphInv, LinksLeadBothWays, IsMutual
  <2>4. ASSUME NEW s, Construct(s)
        PROVE  GraphInv'
    BY <2>4 DEF Construct, GraphInv, LinksLeadBothWays
  <2>5. CASE Turn
    BY <2>2, <2>3, <2>5 DEF Turn, PhysicsTick, Snapshot, WorkloadTurn, Finish
  <2>6. CASE PacketStep
    BY <2>3, <2>6 DEF PacketStep, Transmit, Deliver, Drop, Compute, PacketUnchanged
  <2>7. QED
    BY <2>1, <2>3, <2>4, <2>5, <2>6, NextParts
<1>3. QED
  BY <1>1, <1>2, PTL DEF Spec, GraphInv
-----------------------------------------------------------------------------
\* Whatever the number of workers, and whichever of them is done first, a result
\* stands where its task does, and rows are made when all are there.
THEOREM ResultsInPlace == Spec => []ResultsAreInPlace
<1>1. Init => ResultsAreInPlace
  BY DEF Init, InitSweep, ResultsAreInPlace
<1>2. ResultsAreInPlace /\ [Next]_vars => ResultsAreInPlace'
  <2> SUFFICES ASSUME ResultsAreInPlace, [Next]_vars PROVE ResultsAreInPlace'
    OBVIOUS
  <2>1. CASE UNCHANGED <<perTask, rows>>
    BY <2>1 DEF ResultsAreInPlace
  <2>2. CASE TakeTask
    BY <2>1, <2>2 DEF TakeTask
  <2>3. ASSUME NEW i \in DOMAIN perTask, Place(i)
        PROVE  ResultsAreInPlace'
    BY <2>3 DEF Place, ResultsAreInPlace
  <2>4. CASE AggregateRows
    BY <2>4 DEF AggregateRows, ResultsAreInPlace
  <2>5. QED
    BY <2>1, <2>2, <2>3, <2>4
       DEF Next, vars, Configure, Launch, FromLayers, Simulate, Sweep, NextSweep, sweepVars
<1>3. QED
  BY <1>1, <1>2, PTL DEF Spec
-----------------------------------------------------------------------------
(* Rounds of training *)

\* Pods are known by their number.
Numbered == {<<"pod", i>> : i \in Nat}

LEMMA NumbersAreOrdered ==
  ASSUME NEW P \in SUBSET (Numbered \X Numbered), NEW e \in P, NEW f \in P
  PROVE  /\ InOrder(e, e)
         /\ InOrder(e, f) \/ InOrder(f, e)
         /\ InOrder(e, f) /\ InOrder(f, e) => e = f
         /\ \A g \in P : InOrder(g, e) /\ InOrder(e, f) => InOrder(g, f)
<1>1. \A g \in P : /\ g[1] = <<"pod", g[1][2]>> /\ g[1][2] \in Nat
                   /\ g[2] = <<"pod", g[2][2]>> /\ g[2][2] \in Nat
                   /\ g = <<g[1], g[2]>>
  <2> SUFFICES ASSUME NEW g \in P
               PROVE  /\ g[1] = <<"pod", g[1][2]>> /\ g[1][2] \in Nat
                      /\ g[2] = <<"pod", g[2][2]>> /\ g[2][2] \in Nat
                      /\ g = <<g[1], g[2]>>
    OBVIOUS
  <2>1. g \in Numbered \X Numbered
    OBVIOUS
  <2>2. g[1] \in Numbered /\ g[2] \in Numbered /\ g = <<g[1], g[2]>>
    BY <2>1
  <2>3. QED
    BY <2>2 DEF Numbered
<1>2. InOrder(e, e) /\ (InOrder(e, f) \/ InOrder(f, e))
  BY <1>1 DEF InOrder
<1>3. ASSUME InOrder(e, f), InOrder(f, e)
      PROVE  e = f
  <2>1. e[1][2] = f[1][2] /\ e[2][2] = f[2][2]
    BY <1>1, <1>3 DEF InOrder
  <2>2. QED
    BY <1>1, <2>1
<1>4. ASSUME NEW g \in P, InOrder(g, e), InOrder(e, f)
      PROVE  InOrder(g, f)
  BY <1>1, <1>4 DEF InOrder
<1>5. QED
  BY <1>2, <1>3, <1>4

Rank(P, e) == Cardinality({f \in P : InOrder(f, e)})

\* The pairs of a round have a first, a second, and so on, and the last.
LEMMA RanksAreDistinct ==
  ASSUME NEW P \in SUBSET (Numbered \X Numbered), IsFiniteSet(P)
  PROVE  \A i \in 1 .. Cardinality(P) : \E e \in P : Rank(P, e) = i
<1> DEFINE below(e) == {f \in P : InOrder(f, e)}
           n == Cardinality(P)
           rank == [e \in P |-> Rank(P, e)]
<1>1. n \in Nat
  BY FS_CardinalityType
<1>2. \A e \in P : IsFiniteSet(below(e)) /\ Cardinality(below(e)) \in 1 .. n
  <2> SUFFICES ASSUME NEW e \in P PROVE IsFiniteSet(below(e)) /\ Cardinality(below(e)) \in 1 .. n
    OBVIOUS
  <2>1. below(e) \in SUBSET P /\ e \in below(e)
    BY NumbersAreOrdered
  <2> HIDE DEF below
  <2>2. IsFiniteSet(below(e)) /\ Cardinality(below(e)) <= n
    BY <2>1, FS_Subset
  <2>3. Cardinality(below(e)) \in Nat /\ Cardinality(below(e)) # 0
    BY <2>1, <2>2, FS_CardinalityType, FS_EmptySet
  <2>4. QED
    BY <1>1, <2>2, <2>3
<1>3. ASSUME NEW e \in P, NEW f \in P, e # f, InOrder(e, f)
      PROVE  Rank(P, e) # Rank(P, f)
  <2>1. below(e) \in SUBSET below(f)
    BY <1>3, NumbersAreOrdered
  <2>2. f \in below(f) /\ f \notin below(e)
    BY <1>3, NumbersAreOrdered
  <2>3. IsFiniteSet(below(f))
    BY <1>2
  <2> HIDE DEF below
  <2>4. Cardinality(below(e)) # Cardinality(below(f))
    BY <2>1, <2>2, <2>3, FS_Subset
  <2>5. QED
    BY <2>4 DEF Rank, below
<1>4. rank \in [P -> 1 .. n]
  BY <1>2 DEF Rank
<1>5. rank \in Injection(P, 1 .. n)
  <2>1. \A e, f \in P : rank[e] = rank[f] => e = f
    BY <1>3, NumbersAreOrdered
  <2>2. QED
    BY <1>4, <2>1 DEF Injection, IsInjective
<1>6. IsFiniteSet(1 .. n) /\ Cardinality(1 .. n) = n
  BY <1>1, FS_Interval
<1>7. rank \in Surjection(P, 1 .. n)
  <2> HIDE DEF rank
  <2>1. QED
    BY <1>5, <1>6, FS_Injection
<1>8. \A i \in 1 .. n : \E e \in P : rank[e] = i
  BY <1>7 DEF Surjection
<1>9. QED
  BY <1>8

\* One header for each pair, and no other.
LEMMA PublishedPairs ==
  ASSUME NEW k, NEW role, NEW P \in SUBSET (Numbered \X Numbered), IsFiniteSet(P)
  PROVE  \E at \in Bijection(1 .. Cardinality(P), P) :
           /\ DOMAIN Published(k, role, P) = 1 .. Cardinality(P)
           /\ \A i \in 1 .. Cardinality(P) :
                Published(k, role, P)[i] = Header(k, role, at[i][1], at[i][2])
<1> DEFINE n == Cardinality(P)
           pick(i) == CHOOSE e \in P : Rank(P, e) = i
           at == [i \in 1 .. n |-> pick(i)]
<1>1. n \in Nat /\ IsFiniteSet(1 .. n) /\ Cardinality(1 .. n) = n
  BY FS_CardinalityType, FS_Interval
<1>2. \A i \in 1 .. n : pick(i) \in P /\ Rank(P, pick(i)) = i
  BY RanksAreDistinct
<1>3. /\ DOMAIN Published(k, role, P) = 1 .. n
      /\ \A i \in 1 .. n : Published(k, role, P)[i] = Header(k, role, pick(i)[1], pick(i)[2])
  BY DEF Published, Rank
<1> HIDE DEF pick
<1>4. at \in Injection(1 .. n, P)
  <2>1. at \in [1 .. n -> P]
    BY <1>2
  <2>2. \A i, j \in 1 .. n : at[i] = at[j] => i = j
    BY <1>2
  <2>3. QED
    BY <2>1, <2>2 DEF Injection, IsInjective
<1>5. at \in Surjection(1 .. n, P)
  <2> HIDE DEF at
  <2>1. QED
    BY <1>1, <1>4, FS_Injection
<1>6. at \in Bijection(1 .. n, P)
  BY <1>4, <1>5 DEF Bijection
<1>7. QED
  BY <1>3, <1>6
-----------------------------------------------------------------------------
PacketFields == {"by", "round", "role", "src", "dst", "type", "flops", "status", "hops"}

HeadersOK ==
  /\ IsSequence(packets)
  /\ \A i \in DOMAIN packets :
       /\ PacketFields \subseteq DOMAIN packets[i]
       /\ packets[i].by \in DOMAIN job
       /\ job[packets[i].by].workload.pattern \in RoundPatterns =>
            packets[i].round \in 0 .. job[packets[i].by].round - 1

\* What a generator has looked up stays as it was; pods are there for all, and two
\* of them for those that exchange gradients.
GeneratorsOK ==
  \A k \in DOMAIN job :
    /\ {"workload", "pods", "sources", "round", "left", "until"} \subseteq DOMAIN job[k]
    /\ k[3] \in 1 .. runs
    /\ job[k].pods \in SUBSET Numbered /\ IsFiniteSet(job[k].pods) /\ job[k].pods # {}
    /\ job[k].round \in Nat
    /\ job[k].workload.pattern \notin RoundPatterns => job[k].round = 0

\* The packets of round r of generator k, if it sends as pattern says.
IsComplete(pattern, pods, server, k, r) ==
  LET toServer == (pods \ {server}) \X {server}
      fromServer == {server} \X (pods \ {server})
  IN  CASE pattern = "all_reduce" ->
             Covers(Sent(k, r, "gradient"), {e \in pods \X pods : e[1] # e[2]})
        [] pattern = "parameter_server" ->
             Covers(Sent(k, r, "gradient"), toServer)
        [] pattern = "federated" ->
             /\ Covers(Sent(k, r, "gather"), toServer)
             /\ Covers(Sent(k, r, "broadcast"), fromServer)
             /\ \A i \in Sent(k, r, "gather"), j \in Sent(k, r, "broadcast") : i < j

RoundsOK ==
  \A k \in DOMAIN job :
    job[k].workload.pattern \in RoundPatterns =>
      \A r \in 0 .. job[k].round - 1 :
        IsComplete(job[k].workload.pattern, job[k].pods,
                   Server(job[k].workload, job[k].pods), k, r)

RoundsInv == runs \in Nat /\ HeadersOK /\ GeneratorsOK /\ RoundsOK

LEMMA FirstIsThere ==
  ASSUME NEW pods \in SUBSET Numbered, pods # {}, NEW w
  PROVE  Server(w, pods) \in pods
<1> DEFINE T == {p[2] : p \in pods}
<1>1. \A p \in pods : p[2] \in Nat /\ p = <<"pod", p[2]>>
  BY DEF Numbered
<1>2. T \subseteq Nat /\ T # {}
  BY <1>1
<1>3. PICK x \in T : \A y \in T : x <= y
  <2> HIDE DEF T
  <2>1. QED
    BY <1>2, LeastNumber
<1>4. PICK p \in pods : p[2] = x
  BY <1>3
<1>5. \A q \in pods : p[2] <= q[2]
  BY <1>3, <1>4
<1>6. First(pods) \in pods
  BY <1>4, <1>5 DEF First
<1>7. QED
  BY <1>6 DEF Server

LEMMA RoundsGiveProperty ==
  ASSUME RoundsInv
  PROVE  RoundsAreComplete
<1> SUFFICES ASSUME NEW k \in DOMAIN job
             PROVE  \E server \in job[k].pods : \A r \in 0 .. job[k].round - 1 :
                      IsComplete(job[k].workload.pattern, job[k].pods, server, k, r)
  BY DEF RoundsAreComplete, IsComplete
<1>1. Server(job[k].workload, job[k].pods) \in job[k].pods
  BY FirstIsThere DEF RoundsInv, GeneratorsOK
<1>2. CASE job[k].workload.pattern \in RoundPatterns
  BY <1>1, <1>2 DEF RoundsInv, RoundsOK
<1>3. CASE job[k].workload.pattern \notin RoundPatterns
  <2>1. job[k].round = 0
    BY <1>3 DEF RoundsInv, GeneratorsOK
  <2>2. 0 .. job[k].round - 1 = {}
    BY <2>1
  <2>3. QED
    BY <1>1, <2>2
<1>4. QED
  BY <1>2, <1>3

\* The headers of the packets there are stay as they are.
KeepsHeaders ==
  \A i \in DOMAIN packets :
    /\ i \in DOMAIN packets'
    /\ DOMAIN packets'[i] = DOMAIN packets[i]
    /\ packets'[i].by = packets[i].by /\ packets'[i].round = packets[i].round
    /\ packets'[i].role = packets[i].role
    /\ packets'[i].src = packets[i].src /\ packets'[i].dst = packets[i].dst

\* None of the packets that are new belongs to round r of generator k.
LEMMA RoundStaysComplete ==
  ASSUME HeadersOK, KeepsHeaders, NEW k, NEW r, NEW pattern \in RoundPatterns, NEW pods, NEW server,
         \A i \in DOMAIN packets' \ DOMAIN packets :
           ~ (packets'[i].by = k /\ packets'[i].round = r),
         IsComplete(pattern, pods, server, k, r)
  PROVE  IsComplete(pattern, pods, server, k, r)'
<1>1. \A role : Sent(k, r, role)' = Sent(k, r, role)
  BY DEF Sent, KeepsHeaders
<1>2. \A role : Sent(k, r, role) \subseteq DOMAIN packets
  BY DEF Sent
<1>3. \A role, P : Covers(Sent(k, r, role), P) => Covers(Sent(k, r, role), P)'
  <2> SUFFICES ASSUME NEW role, NEW P, Covers(Sent(k, r, role), P)
               PROVE  Covers(Sent(k, r, role), P)'
    OBVIOUS
  <2> DEFINE I == Sent(k, r, role)
  <2>1. I' = I /\ I \subseteq DOMAIN packets
    BY <1>1, <1>2
  <2> HIDE DEF I
  <2>2. \A i \in I : packets'[i].src = packets[i].src /\ packets'[i].dst = packets[i].dst
    BY <2>1 DEF KeepsHeaders
  <2>3. {<<packets'[i].src, packets'[i].dst>> : i \in I} = {<<packets[i].src, packets[i].dst>> : i \in I}
    BY <2>2
  <2>4. Covers(I, P)
    BY DEF I
  <2>5. Covers(I, P)'
    BY <2>1, <2>3, <2>4 DEF Covers
  <2>6. QED
    BY <2>5 DEF I
<1>4. CASE pattern = "all_reduce"
  BY <1>3, <1>4 DEF IsComplete
<1>5. CASE pattern = "parameter_server"
  BY <1>3, <1>5 DEF IsComplete
<1>6. CASE pattern = "federated"
  BY <1>1, <1>3, <1>6 DEF IsComplete
<1>7. QED
  BY <1>4, <1>5, <1>6 DEF RoundPatterns, SyncPatterns

\* A step that publishes nothing and begins nothing.
LEMMA RoundsUndisturbed ==
  ASSUME RoundsInv, KeepsHeaders, IsSequence(packets)', DOMAIN packets' = DOMAIN packets,
         UNCHANGED <<job, runs>>
  PROVE  RoundsInv'
<1>1. HeadersOK'
  BY DEF RoundsInv, HeadersOK, KeepsHeaders
<1>2. GeneratorsOK'
  BY DEF RoundsInv, GeneratorsOK
<1>3. RoundsOK'
  <2> SUFFICES ASSUME NEW k \in DOMAIN job, job[k].workload.pattern \in RoundPatterns,
                      NEW r \in 0 .. job[k].round - 1
               PROVE  IsComplete(job[k].workload.pattern, job[k].pods,
                                 Server(job[k].workload, job[k].pods), k, r)'
    BY DEF RoundsOK
  <2>1. PICK pattern, pods, server : /\ pattern = job[k].workload.pattern /\ pods = job[k].pods
                                     /\ server = Server(job[k].workload, job[k].pods)
    OBVIOUS
  <2>2. IsComplete(pattern, pods, server, k, r)
    BY <2>1 DEF RoundsInv, RoundsOK
  <2>3. IsComplete(pattern, pods, server, k, r)'
    BY <2>1, <2>2, RoundStaysComplete DEF RoundsInv
  <2>4. pattern = job'[k].workload.pattern /\ pods = job'[k].pods
        /\ server = Server(job'[k].workload, job'[k].pods)
    BY <2>1
  <2>5. QED
    BY <2>3, <2>4
<1>4. QED
  BY <1>1, <1>2, <1>3 DEF RoundsInv
-----------------------------------------------------------------------------
\* A packet as generator k publishes it.
IsFrom(k, p) ==
  /\ PacketFields \subseteq DOMAIN p
  /\ p.by = k /\ p.round = job[k].round
  /\ p.src \in job[k].pods \cup job[k].sources /\ p.dst \in job[k].pods
  /\ p.status = "published" /\ p.hops = 0

\* What a turn of generator k adds.
Adding(k) ==
  /\ KeepsHeaders
  /\ IsSequence(packets)'
  /\ \A i \in DOMAIN packets : packets'[i] = packets[i]
  /\ \A i \in DOMAIN packets' \ DOMAIN packets : IsFrom(k, packets'[i])

LEMMA HeaderIsFrom ==
  ASSUME NEW k, NEW role, NEW s \in job[k].pods \cup job[k].sources, NEW d \in job[k].pods
  PROVE  IsFrom(k, Header(k, role, s, d)) /\ Header(k, role, s, d).role = role
BY DEF IsFrom, Header, PacketFields

LEMMA BatchIsAdded ==
  ASSUME IsSequence(packets), NEW k, NEW b, IsSequence(b),
         \A i \in DOMAIN b : IsFrom(k, b[i]), packets' = packets \o b
  PROVE  /\ Adding(k)
         /\ Len(packets) \in Nat /\ DOMAIN packets = 1 .. Len(packets)
         /\ Len(b) \in Nat /\ DOMAIN b = 1 .. Len(b)
         /\ DOMAIN packets' = 1 .. Len(packets) + Len(b)
         /\ \A i \in 1 .. Len(b) : packets'[Len(packets) + i] = b[i]
<1>1. /\ Len(packets) \in Nat /\ DOMAIN packets = 1 .. Len(packets)
      /\ Len(b) \in Nat /\ DOMAIN b = 1 .. Len(b)
  BY LenProperties DEF IsSequence
<1>2. /\ IsSequence(packets')
      /\ DOMAIN packets' = 1 .. Len(packets) + Len(b)
      /\ \A i \in 1 .. Len(packets) + Len(b) :
           packets'[i] = IF i <= Len(packets) THEN packets[i] ELSE b[i - Len(packets)]
  BY Joined
<1>3. \A i \in DOMAIN packets : i \in DOMAIN packets' /\ packets'[i] = packets[i]
  BY <1>1, <1>2
<1>4. \A i \in DOMAIN packets' \ DOMAIN packets : IsFrom(k, packets'[i])
  BY <1>1, <1>2
<1>5. \A i \in 1 .. Len(b) : packets'[Len(packets) + i] = b[i]
  BY <1>1, <1>2
<1>6. IsSequence(packets)'
  BY <1>2 DEF IsSequence
<1>7. Adding(k)
  BY <1>3, <1>4, <1>6 DEF Adding, KeepsHeaders
<1>8. QED
  BY <1>1, <1>2, <1>5, <1>7

\* After from of them the packets of s are as many as P has pairs, one for each.
IsPiece(s, from, P) ==
  /\ Cardinality(from + 1 .. from + Cardinality(P)) = Cardinality(P)
  /\ P = {<<s[i].src, s[i].dst>> : i \in from + 1 .. from + Cardinality(P)}

LEMMA PieceCovers ==
  ASSUME NEW k, NEW role, NEW P \in SUBSET (Numbered \X Numbered), IsFiniteSet(P),
         NEW from \in Nat, NEW s,
         \A i \in 1 .. Cardinality(P) : s[from + i] = Published(k, role, P)[i]
  PROVE  IsPiece(s, from, P)
<1> DEFINE n == Cardinality(P)
           I == from + 1 .. from + n
<1>1. n \in Nat
  BY FS_CardinalityType
<1>2. PICK at \in Bijection(1 .. Cardinality(P), P) :
        /\ DOMAIN Published(k, role, P) = 1 .. Cardinality(P)
        /\ \A i \in 1 .. Cardinality(P) :
             Published(k, role, P)[i] = Header(k, role, at[i][1], at[i][2])
  BY PublishedPairs
<1>3. Cardinality(I) = n
  <2> HIDE DEF n
  <2>1. from + 1 \in Int /\ from + n \in Int
    BY <1>1
  <2>2. Cardinality(I) = IF from + 1 > from + n THEN 0 ELSE (from + n) - (from + 1) + 1
    BY <2>1, FS_Interval
  <2>3. QED
    BY <1>1, <2>2
<1>4. \A i \in 1 .. n : /\ at[i] \in P
                        /\ s[from + i].src = at[i][1] /\ s[from + i].dst = at[i][2]
  <2> SUFFICES ASSUME NEW i \in 1 .. n
               PROVE  /\ at[i] \in P
                      /\ s[from + i].src = at[i][1] /\ s[from + i].dst = at[i][2]
    OBVIOUS
  <2>1. s[from + i] = Header(k, role, at[i][1], at[i][2])
    BY <1>2
  <2>2. at[i] \in P
    BY <1>2 DEF Bijection, Injection
  <2>3. QED
    BY <2>1, <2>2 DEF Header
<1>5. \A e \in P : e = <<e[1], e[2]>>
  OBVIOUS
<1>6. \A e \in P : \E i \in 1 .. n : at[i] = e
  BY <1>2 DEF Bijection, Surjection
<1> HIDE DEF n
<1>7. \A j \in I : \E i \in 1 .. n : j = from + i
  <2> SUFFICES ASSUME NEW j \in I PROVE \E i \in 1 .. n : j = from + i
    OBVIOUS
  <2>1. j - from \in 1 .. n /\ j = from + (j - from)
    BY <1>1
  <2>2. QED
    BY <2>1
<1>8. \A i \in 1 .. n : from + i \in I
  BY <1>1
<1>9. {<<s[i].src, s[i].dst>> : i \in I} \subseteq P
  BY <1>4, <1>5, <1>7
<1>10. P \subseteq {<<s[i].src, s[i].dst>> : i \in I}
  BY <1>4, <1>5, <1>6, <1>8
<1>11. QED
  BY <1>3, <1>9, <1>10 DEF n, IsPiece

LEMMA PairsOfPods ==
  ASSUME NEW pods \in SUBSET Numbered, IsFiniteSet(pods), NEW server \in pods
  PROVE  /\ {e \in pods \X pods : e[1] # e[2]} \in SUBSET (pods \X pods)
         /\ (pods \ {server}) \X {server} \in SUBSET (pods \X pods)
         /\ {server} \X (pods \ {server}) \in SUBSET (pods \X pods)
         /\ \A P \in SUBSET (pods \X pods) :
              P \in SUBSET (Numbered \X Numbered) /\ IsFiniteSet(P)
<1>1. IsFiniteSet(pods \X pods)
  BY FS_Product
<1>2. QED
  BY <1>1, FS_Subset

LEMMA PublishedAreFrom ==
  ASSUME NEW k, NEW role, job[k].pods \in SUBSET Numbered, IsFiniteSet(job[k].pods),
         NEW P \in SUBSET (job[k].pods \X job[k].pods)
  PROVE  /\ IsSequence(Published(k, role, P))
         /\ DOMAIN Published(k, role, P) = 1 .. Cardinality(P)
         /\ Len(Published(k, role, P)) = Cardinality(P) /\ Cardinality(P) \in Nat
         /\ \A i \in 1 .. Cardinality(P) :
              IsFrom(k, Published(k, role, P)[i]) /\ Published(k, role, P)[i].role = role
<1>1. P \in SUBSET (Numbered \X Numbered) /\ IsFiniteSet(P)
  <2>1. IsFiniteSet(job[k].pods \X job[k].pods)
    BY FS_Product
  <2>2. QED
    BY <2>1, FS_Subset
<1>2. PICK at \in Bijection(1 .. Cardinality(P), P) :
        /\ DOMAIN Published(k, role, P) = 1 .. Cardinality(P)
        /\ \A i \in 1 .. Cardinality(P) :
             Published(k, role, P)[i] = Header(k, role, at[i][1], at[i][2])
  BY <1>1, PublishedPairs
<1>3. \A i \in 1 .. Cardinality(P) : at[i] \in P
  BY <1>2 DEF Bijection, Injection
<1>4. \A i \in 1 .. Cardinality(P) : at[i][1] \in job[k].pods /\ at[i][2] \in job[k].pods
  BY <1>3
<1>5. \A i \in 1 .. Cardinality(P) :
        IsFrom(k, Published(k, role, P)[i]) /\ Published(k, role, P)[i].role = role
  BY <1>2, <1>4, HeaderIsFrom
<1>6. IsSequence(Published(k, role, P))
  BY <1>1, PublishedIsFresh DEF IsFreshSequence
<1>7. Cardinality(P) \in Nat
  BY <1>1, FS_CardinalityType
<1>8. Len(Published(k, role, P)) = Cardinality(P)
  <2>1. Len(Published(k, role, P)) \in Nat /\ DOMAIN Published(k, role, P) = 1 .. Len(Published(k, role, P))
    BY <1>6, LenProperties DEF IsSequence
  <2>2. QED
    BY <1>2, <1>7, <2>1
<1>9. QED
  BY <1>2, <1>5, <1>6, <1>7, <1>8
-----------------------------------------------------------------------------
\* One batch, published for the pairs P of the pods that take part.
LEMMA BatchCovers ==
  ASSUME HeadersOK, GeneratorsOK, NEW k \in DOMAIN job,
         job[k].workload.pattern \in RoundPatterns, NEW role,
         NEW P \in SUBSET (job[k].pods \X job[k].pods),
         packets' = packets \o Published(k, role, P),
         NEW r, r = job[k].round
  PROVE  Adding(k) /\ Covers(Sent(k, r, role), P)'
<1> DEFINE b == Published(k, role, P)
           from == Len(packets)
<1>1. job[k].pods \in SUBSET Numbered /\ IsFiniteSet(job[k].pods)
  BY DEF GeneratorsOK
<1>2. /\ IsSequence(b) /\ DOMAIN b = 1 .. Cardinality(P)
      /\ Len(b) = Cardinality(P) /\ Cardinality(P) \in Nat
      /\ \A i \in 1 .. Cardinality(P) : IsFrom(k, b[i]) /\ b[i].role = role
  BY <1>1, PublishedAreFrom
<1> HIDE DEF b
<1>3. /\ Adding(k)
      /\ from \in Nat /\ DOMAIN packets = 1 .. from
      /\ DOMAIN packets' = 1 .. from + Len(b)
      /\ \A i \in 1 .. Len(b) : packets'[from + i] = b[i]
  BY <1>2, BatchIsAdded DEF HeadersOK, b
<1> HIDE DEF from
<1>4. \A i \in DOMAIN packets : ~ (packets[i].by = k /\ packets[i].round = r)
  <2> SUFFICES ASSUME NEW i \in DOMAIN packets, packets[i].by = k PROVE packets[i].round # r
    OBVIOUS
  <2>1. r \in Nat /\ packets[i].round \in 0 .. r - 1
    BY DEF HeadersOK, GeneratorsOK
  <2>2. QED
    BY <2>1
<1>5. Sent(k, r, role)' = from + 1 .. from + Cardinality(P)
  <2>1. \A i \in DOMAIN packets' :
          packets'[i].by = k /\ packets'[i].round = r /\ packets'[i].role = role <=> i \notin DOMAIN packets
    <3> SUFFICES ASSUME NEW i \in DOMAIN packets'
                 PROVE  packets'[i].by = k /\ packets'[i].round = r /\ packets'[i].role = role
                          <=> i \notin DOMAIN packets
      OBVIOUS
    <3>1. CASE i \in DOMAIN packets
      BY <1>3, <1>4, <3>1 DEF Adding
    <3>2. CASE i \notin DOMAIN packets
      <4>1. i - from \in 1 .. Len(b) /\ from + (i - from) = i
        BY <1>2, <1>3, <3>2
      <4>2. packets'[i] = b[i - from]
        BY <1>3, <4>1
      <4>3. QED
        BY <1>2, <3>2, <4>1, <4>2 DEF IsFrom
    <3>3. QED
      BY <3>1, <3>2
  <2>2. QED
    BY <1>2, <1>3, <2>1 DEF Sent
<1>6. \A i \in 1 .. Cardinality(P) : packets'[from + i] = Published(k, role, P)[i]
  BY <1>2, <1>3 DEF b
<1>7. P \in SUBSET (Numbered \X Numbered) /\ IsFiniteSet(P)
  <2>1. IsFiniteSet(job[k].pods \X job[k].pods)
    BY <1>1, FS_Product
  <2>2. QED
    BY <1>1, <2>1, FS_Subset
<1>8. IsPiece(packets', from, P)
  <2>1. PICK s : s = packets'
    OBVIOUS
  <2>2. from \in Nat /\ \A i \in 1 .. Cardinality(P) : s[from + i] = Published(k, role, P)[i]
    BY <1>3, <1>6, <2>1
  <2>3. IsPiece(s, from, P)
    BY <1>7, <2>2, PieceCovers
  <2>4. QED
    BY <2>1, <2>3
<1>9. Covers(Sent(k, r, role), P)'
  BY <1>5, <1>8 DEF Covers, IsPiece
<1>10. QED
  BY <1>3, <1>9

LEMMA TwoBatchesCover ==
  ASSUME HeadersOK, GeneratorsOK, NEW k \in DOMAIN job,
         job[k].workload.pattern \in RoundPatterns, NEW role1, NEW role2, role1 # role2,
         NEW P1 \in SUBSET (job[k].pods \X job[k].pods),
         NEW P2 \in SUBSET (job[k].pods \X job[k].pods),
         packets' = packets \o (Published(k, role1, P1) \o Published(k, role2, P2)),
         NEW r, r = job[k].round
  PROVE  /\ Adding(k) /\ Covers(Sent(k, r, role1), P1)' /\ Covers(Sent(k, r, role2), P2)'
         /\ \A i \in Sent(k, r, role1)', j \in Sent(k, r, role2)' : i < j
<1> DEFINE b1 == Published(k, role1, P1)
           b2 == Published(k, role2, P2)
           b == b1 \o b2
           from == Len(packets)
           n1 == Cardinality(P1)
           n2 == Cardinality(P2)
<1>1. job[k].pods \in SUBSET Numbered /\ IsFiniteSet(job[k].pods)
  BY DEF GeneratorsOK
<1>2. /\ IsSequence(b1) /\ DOMAIN b1 = 1 .. n1 /\ Len(b1) = n1 /\ n1 \in Nat
      /\ \A i \in 1 .. n1 : IsFrom(k, b1[i]) /\ b1[i].role = role1
      /\ IsSequence(b2) /\ DOMAIN b2 = 1 .. n2 /\ Len(b2) = n2 /\ n2 \in Nat
      /\ \A i \in 1 .. n2 : IsFrom(k, b2[i]) /\ b2[i].role = role2
  BY <1>1, PublishedAreFrom
<1> HIDE DEF b1, b2, n1, n2
<1>3. /\ IsSequence(b) /\ DOMAIN b = 1 .. n1 + n2
      /\ \A i \in 1 .. n1 + n2 : b[i] = IF i <= n1 THEN b1[i] ELSE b2[i - n1]
  BY <1>2, Joined
<1> HIDE DEF b
<1>4. \A i \in 1 .. n1 + n2 : /\ IsFrom(k, b[i])
                              /\ i <= n1 => b[i].role = role1
                              /\ i > n1 => b[i].role = role2
  <2> SUFFICES ASSUME NEW i \in 1 .. n1 + n2
               PROVE  /\ IsFrom(k, b[i])
                      /\ i <= n1 => b[i].role = role1
                      /\ i > n1 => b[i].role = role2
    OBVIOUS
  <2>1. CASE i <= n1
    BY <1>2, <1>3, <2>1
  <2>2. CASE i > n1
    <3>1. i - n1 \in 1 .. n2 /\ b[i] = b2[i - n1]
      BY <1>2, <1>3, <2>2
    <3>2. QED
      BY <1>2, <2>2, <3>1
  <2>3. QED
    BY <1>2, <2>1, <2>2
<1>5. /\ Adding(k)
      /\ from \in Nat /\ DOMAIN packets = 1 .. from
      /\ DOMAIN b = 1 .. Len(b) /\ Len(b) \in Nat
      /\ DOMAIN packets' = 1 .. from + Len(b)
      /\ \A i \in 1 .. Len(b) : packets'[from + i] = b[i]
  BY <1>3, <1>4, BatchIsAdded DEF HeadersOK, b, b1, b2
<1>6. Len(b) = n1 + n2
  BY <1>2, <1>3, <1>5
<1> HIDE DEF from
<1>7. \A i \in DOMAIN packets : ~ (packets[i].by = k /\ packets[i].round = r)
  <2> SUFFICES ASSUME NEW i \in DOMAIN packets, packets[i].by = k PROVE packets[i].round # r
    OBVIOUS
  <2>1. r \in Nat /\ packets[i].round \in 0 .. r - 1
    BY DEF HeadersOK, GeneratorsOK
  <2>2. QED
    BY <2>1
<1>8. \A i \in DOMAIN packets' :
         IF i <= from THEN ~ (packets'[i].by = k /\ packets'[i].round = r)
         ELSE /\ packets'[i].by = k /\ packets'[i].round = r
              /\ packets'[i].role = IF i <= from + n1 THEN role1 ELSE role2
  <2> SUFFICES ASSUME NEW i \in DOMAIN packets'
               PROVE  IF i <= from THEN ~ (packets'[i].by = k /\ packets'[i].round = r)
                      ELSE /\ packets'[i].by = k /\ packets'[i].round = r
                           /\ packets'[i].role = IF i <= from + n1 THEN role1 ELSE role2
    OBVIOUS
  <2>1. CASE i <= from
    <3>1. i \in DOMAIN packets
      BY <1>5, <2>1
    <3>2. QED
      BY <1>5, <1>7, <2>1, <3>1 DEF Adding
  <2>2. CASE i > from
    <3>1. i - from \in 1 .. n1 + n2 /\ from + (i - from) = i
      BY <1>2, <1>5, <1>6, <2>2
    <3>2. packets'[i] = b[i - from]
      BY <1>5, <1>6, <3>1
    <3>3. i - from <= n1 <=> i <= from + n1
      BY <1>2, <1>5, <2>2
    <3>4. i - from > n1 <=> ~ (i <= from + n1)
      BY <1>2, <1>5, <2>2
    <3>5. QED
      BY <1>4, <1>5, <2>2, <3>1, <3>2, <3>3, <3>4 DEF IsFrom
  <2>3. QED
    BY <1>5, <2>1, <2>2
<1>9. /\ Sent(k, r, role1)' = from + 1 .. from + n1
      /\ Sent(k, r, role2)' = (from + n1) + 1 .. (from + n1) + n2
  <2>1. DOMAIN packets' = 1 .. from + (n1 + n2)
    BY <1>5, <1>6
  <2>2. Sent(k, r, role1)' = {i \in DOMAIN packets' : packets'[i].by = k /\ packets'[i].round = r
                                                        /\ packets'[i].role = role1}
    BY DEF Sent
  <2>3. Sent(k, r, role2)' = {i \in DOMAIN packets' : packets'[i].by = k /\ packets'[i].round = r
                                                        /\ packets'[i].role = role2}
    BY DEF Sent
  <2>4. \A i \in DOMAIN packets' :
          /\ (packets'[i].by = k /\ packets'[i].round = r /\ packets'[i].role = role1
               <=> i > from /\ i <= from + n1)
          /\ (packets'[i].by = k /\ packets'[i].round = r /\ packets'[i].role = role2
               <=> i > from /\ ~ (i <= from + n1))
    <3> SUFFICES ASSUME NEW i \in DOMAIN packets'
                 PROVE  /\ (packets'[i].by = k /\ packets'[i].round = r /\ packets'[i].role = role1
                             <=> i > from /\ i <= from + n1)
                        /\ (packets'[i].by = k /\ packets'[i].round = r /\ packets'[i].role = role2
                             <=> i > from /\ ~ (i <= from + n1))
      OBVIOUS
    <3>1. i \in Nat
      BY <1>2, <1>5, <2>1
    <3>2. i > from <=> ~ (i <= from)
      BY <1>5, <3>1
    <3>3. QED
      BY <1>8, <3>2
  <2>5. \A i \in DOMAIN packets' : i > from /\ i <= from + n1 <=> i \in from + 1 .. from + n1
    BY <1>2, <1>5, <2>1
  <2>6. \A i \in DOMAIN packets' :
          i > from /\ ~ (i <= from + n1) <=> i \in (from + n1) + 1 .. (from + n1) + n2
    BY <1>2, <1>5, <2>1
  <2>7. /\ from + 1 .. from + n1 \subseteq DOMAIN packets'
        /\ (from + n1) + 1 .. (from + n1) + n2 \subseteq DOMAIN packets'
    BY <1>2, <1>5, <2>1
  <2>8. QED
    BY <2>2, <2>3, <2>4, <2>5, <2>6, <2>7
<1>10. /\ \A i \in 1 .. n1 : packets'[from + i] = b1[i]
       /\ \A i \in 1 .. n2 : packets'[(from + n1) + i] = b2[i]
  <2>1. ASSUME NEW i \in 1 .. n1
        PROVE  packets'[from + i] = b1[i]
    BY <1>2, <1>3, <1>5, <1>6
  <2>2. ASSUME NEW i \in 1 .. n2
        PROVE  packets'[(from + n1) + i] = b2[i]
    <3>1. n1 + i \in 1 .. n1 + n2 /\ ~ (n1 + i <= n1) /\ (n1 + i) - n1 = i
          /\ from + (n1 + i) = (from + n1) + i
      BY <1>2, <1>5
    <3>2. QED
      BY <1>3, <1>5, <1>6, <3>1
  <2>3. QED
    BY <2>1, <2>2
<1>11. \A P \in SUBSET (job[k].pods \X job[k].pods) :
         P \in SUBSET (Numbered \X Numbered) /\ IsFiniteSet(P)
  <2>1. IsFiniteSet(job[k].pods \X job[k].pods)
    BY <1>1, FS_Product
  <2>2. QED
    BY <1>1, <2>1, FS_Subset
<1>12. IsPiece(packets', from, P1)
  <2>1. PICK s : s = packets'
    OBVIOUS
  <2>2. from \in Nat /\ \A i \in 1 .. Cardinality(P1) : s[from + i] = Published(k, role1, P1)[i]
    BY <1>5, <1>10, <2>1 DEF b1, n1
  <2>3. IsPiece(s, from, P1)
    BY <1>11, <2>2, PieceCovers
  <2>4. QED
    BY <2>1, <2>3
<1>13. IsPiece(packets', from + n1, P2)
  <2>1. PICK start \in Nat : start = from + n1
    BY <1>2, <1>5
  <2>2. PICK s : s = packets'
    OBVIOUS
  <2>3. \A i \in 1 .. Cardinality(P2) : s[start + i] = Published(k, role2, P2)[i]
    BY <1>10, <2>1, <2>2 DEF b2, n2
  <2>4. IsPiece(s, start, P2)
    BY <1>11, <2>3, PieceCovers
  <2>5. QED
    BY <2>1, <2>2, <2>4
<1>14. Covers(Sent(k, r, role1), P1)' /\ Covers(Sent(k, r, role2), P2)'
  BY <1>9, <1>12, <1>13 DEF Covers, IsPiece, n1, n2
<1>15. \A i \in Sent(k, r, role1)', j \in Sent(k, r, role2)' : i < j
  BY <1>2, <1>5, <1>9
<1>16. QED
  BY <1>5, <1>14, <1>15

LEMMA RoundIsSent ==
  ASSUME HeadersOK, GeneratorsOK, NEW k \in DOMAIN job, PublishRound(k),
         NEW pattern, pattern = job[k].workload.pattern, NEW pods, pods = job[k].pods,
         NEW server, server = Server(job[k].workload, job[k].pods), NEW r, r = job[k].round
  PROVE  Adding(k) /\ IsComplete(pattern, pods, server, k, r)'
<1> DEFINE P == IF pattern = "all_reduce" THEN {e \in pods \X pods : e[1] # e[2]}
                ELSE (pods \ {server}) \X {server}
           Q == {server} \X (pods \ {server})
<1>1. /\ pods \in SUBSET Numbered /\ IsFiniteSet(pods) /\ pods # {}
      /\ pattern \in RoundPatterns /\ packets' = packets \o Round(k)
  BY DEF GeneratorsOK, PublishRound
<1>2. server \in pods
  BY <1>1, FirstIsThere
<1>3. P \in SUBSET (pods \X pods) /\ Q \in SUBSET (pods \X pods)
  BY <1>1, <1>2, PairsOfPods
<1>4. CASE pattern = "federated"
  <2>1. Round(k) = Published(k, "gather", P) \o Published(k, "broadcast", Q)
    BY <1>4 DEF Round, FederatedRound
  <2> HIDE DEF P, Q
  <2>2. /\ Adding(k) /\ Covers(Sent(k, r, "gather"), P)' /\ Covers(Sent(k, r, "broadcast"), Q)'
        /\ \A i \in Sent(k, r, "gather")', j \in Sent(k, r, "broadcast")' : i < j
    <3>1. "gather" # "broadcast"
      OBVIOUS
    <3>2. packets' = packets \o (Published(k, "gather", P) \o Published(k, "broadcast", Q))
      BY <1>1, <2>1
    <3>3. QED
      BY <1>1, <1>3, <3>1, <3>2, TwoBatchesCover
  <2>3. P = (pods \ {server}) \X {server} /\ Q = {server} \X (pods \ {server})
    BY <1>4 DEF P, Q
  <2>4. QED
    BY <1>4, <2>2, <2>3 DEF IsComplete
<1>5. CASE pattern # "federated"
  <2>1. Round(k) = Published(k, "gradient", P)
    BY <1>5 DEF Round, TrainingRound
  <2> HIDE DEF P, Q
  <2>2. Adding(k) /\ Covers(Sent(k, r, "gradient"), P)'
    BY <1>1, <1>3, <2>1, BatchCovers
  <2>3. CASE pattern = "all_reduce"
    <3>1. P = {e \in pods \X pods : e[1] # e[2]}
      BY <2>3 DEF P
    <3>2. QED
      BY <2>2, <2>3, <3>1 DEF IsComplete
  <2>4. CASE pattern = "parameter_server"
    <3>1. P = (pods \ {server}) \X {server}
      BY <2>4 DEF P
    <3>2. QED
      BY <2>2, <2>4, <3>1 DEF IsComplete
  <2>5. QED
    BY <1>1, <1>5, <2>3, <2>4 DEF RoundPatterns, SyncPatterns
<1>6. QED
  BY <1>4, <1>5
-----------------------------------------------------------------------------
\* f[i] is made of the first i sequences.
IsFlattening(seqs, f) ==
  f = [i \in 1 .. Len(seqs) |-> IF i = 1 THEN seqs[i] ELSE f[i - 1] \o seqs[i]]

LEMMA FlatteningExists ==
  ASSUME NEW S, NEW seqs \in Seq(Seq(S))
  PROVE  \E f : IsFlattening(seqs, f)
<1> DEFINE n == Len(seqs)
           next(i, s) == IF i + 1 \in 1 .. n THEN s \o seqs[i + 1] ELSE s
           adds == [i \in Nat |-> [s \in Seq(S) |-> next(i, s)]]
<1>1. n \in Nat /\ DOMAIN seqs = 1 .. n /\ \A i \in 1 .. n : seqs[i] \in Seq(S)
  BY LenProperties
<1>2. adds \in [Nat -> [Seq(S) -> Seq(S)]]
  <2>1. \A i \in Nat, s \in Seq(S) : next(i, s) \in Seq(S)
    BY <1>1, ConcatProperties
  <2> HIDE DEF next
  <2>2. QED
    BY <2>1
<1>3. <<>> \in Seq(S)
  OBVIOUS
<1>4. PICK g : Follows(Seq(S), <<>>, adds, g)
  <2> HIDE DEF adds
  <2>1. QED
    BY <1>2, <1>3, RecursionHolds
<1>5. /\ g \in [Nat -> Seq(S)] /\ g[0] = <<>>
      /\ \A i \in Nat : i + 1 \in 1 .. n => g[i + 1] = g[i] \o seqs[i + 1]
  BY <1>4 DEF Follows
<1> HIDE DEF n
<1> DEFINE f == [i \in 1 .. n |-> g[i]]
<1>6. \A i \in 1 .. n : f[i] = IF i = 1 THEN seqs[i] ELSE f[i - 1] \o seqs[i]
  <2> SUFFICES ASSUME NEW i \in 1 .. n PROVE f[i] = IF i = 1 THEN seqs[i] ELSE f[i - 1] \o seqs[i]
    OBVIOUS
  <2>1. i - 1 \in Nat /\ (i - 1) + 1 = i
    BY <1>1
  <2>2. g[i] = g[i - 1] \o seqs[i]
    BY <1>5, <2>1
  <2>3. CASE i = 1
    <3>1. <<>> \o seqs[i] = seqs[i]
      BY <1>1, ConcatEmptySeq
    <3>2. g[i - 1] = <<>>
      <4>1. i - 1 = 0
        BY <2>3
      <4>2. QED
        BY <1>5, <4>1
    <3>3. f[i] = g[i]
      OBVIOUS
    <3>4. f[i] = seqs[i]
      BY <2>2, <3>1, <3>2, <3>3
    <3>5. QED
      BY <2>3, <3>4
  <2>4. CASE i # 1
    <3>1. i - 1 \in 1 .. n
      BY <1>1, <2>4
    <3>2. QED
      BY <2>2, <2>4, <3>1
  <2>5. QED
    BY <2>3, <2>4
<1>7. IsFlattening(seqs, f)
  <2>1. f = [i \in 1 .. n |-> f[i]]
    OBVIOUS
  <2> HIDE DEF f
  <2>2. [i \in 1 .. n |-> f[i]] = [i \in 1 .. n |-> IF i = 1 THEN seqs[i] ELSE f[i - 1] \o seqs[i]]
    BY <1>6
  <2>3. QED
    BY <2>1, <2>2 DEF IsFlattening, n
<1>8. QED
  BY <1>7

\* Sequences of equal lengths, one after the other.
LEMMA FlattenBlocks ==
  ASSUME NEW S, NEW seqs \in Seq(Seq(S)), NEW c \in Nat,
         \A i \in DOMAIN seqs : Len(seqs[i]) = c
  PROVE  /\ FlattenSeq(seqs) \in Seq(S)
         /\ Len(FlattenSeq(seqs)) = Len(seqs) * c
         /\ \A i \in DOMAIN seqs, j \in 1 .. c : FlattenSeq(seqs)[(i - 1) * c + j] = seqs[i][j]
<1> DEFINE n == Len(seqs)
<1>1. n \in Nat /\ DOMAIN seqs = 1 .. n /\ \A i \in 1 .. n : seqs[i] \in Seq(S) /\ Len(seqs[i]) = c
  BY LenProperties
<1>2. CASE n = 0
  <2>1. seqs = <<>> /\ FlattenSeq(seqs) = seqs
    BY <1>1, <1>2, EmptySeq DEF FlattenSeq
  <2>2. DOMAIN seqs = {} /\ Len(seqs) * c = 0
    BY <1>1, <1>2
  <2>3. seqs \in Seq(S) /\ Len(seqs) = 0
    BY <1>2, <2>1
  <2>4. QED
    BY <2>1, <2>2, <2>3
<1>3. CASE n # 0
  <2> DEFINE f == CHOOSE f : f = [i \in 1 .. Len(seqs) |-> IF i = 1 THEN seqs[i] ELSE f[i - 1] \o seqs[i]]
  <2>1. FlattenSeq(seqs) = f[n]
    BY <1>3 DEF FlattenSeq
  <2>2. IsFlattening(seqs, f)
    BY FlatteningExists DEF IsFlattening
  <2> HIDE DEF f
  <2>3. \A i \in 1 .. n : f[i] = IF i = 1 THEN seqs[i] ELSE f[i - 1] \o seqs[i]
    BY <2>2 DEF IsFlattening
  <2> HIDE DEF n
  <2> DEFINE IsJoined(s, m) == /\ s \in Seq(S) /\ Len(s) = m * c
                               /\ \A i \in 1 .. m, j \in 1 .. c : s[(i - 1) * c + j] = seqs[i][j]
             D == {m \in Nat : m \in 1 .. n => IsJoined(f[m], m)}
  <2>4. 0 \in D
    BY <1>1
  <2>5. ASSUME NEW m \in Nat, m \in D
        PROVE  m + 1 \in D
    <3> SUFFICES ASSUME m + 1 \in 1 .. n PROVE IsJoined(f[m + 1], m + 1)
      OBVIOUS
    <3>1. seqs[m + 1] \in Seq(S) /\ Len(seqs[m + 1]) = c
      BY <1>1
    <3>2. CASE m = 0
      <4>1. f[1] = seqs[1]
        BY <2>3, <3>2
      <4>2. \A j \in 1 .. c : (1 - 1) * c + j = j
        OBVIOUS
      <4>3. IsJoined(seqs[1], 1)
        BY <3>1, <3>2, <4>2
      <4>4. QED
        BY <3>2, <4>1, <4>3
    <3>3. CASE m # 0
      <4>1. m \in 1 .. n /\ m + 1 # 1 /\ (m + 1) - 1 = m
        BY <1>1, <3>3
      <4>2. f[m + 1] = f[m] \o seqs[m + 1] /\ IsJoined(f[m], m)
        BY <2>3, <2>5, <4>1
      <4> DEFINE s == f[m]
                 t == seqs[m + 1]
      <4>3. /\ s \in Seq(S) /\ t \in Seq(S) /\ Len(s) = m * c /\ Len(t) = c /\ m * c \in Nat
            /\ \A i \in 1 .. m, j \in 1 .. c : s[(i - 1) * c + j] = seqs[i][j]
        BY <3>1, <4>2
      <4> HIDE DEF s, t
      <4>4. /\ s \o t \in Seq(S) /\ Len(s \o t) = m * c + c
            /\ \A i \in 1 .. m * c + c : (s \o t)[i] = IF i <= m * c THEN s[i] ELSE t[i - m * c]
        <5>1. /\ s \o t \in Seq(S) /\ Len(s \o t) = Len(s) + Len(t)
              /\ \A i \in 1 .. Len(s) + Len(t) :
                   (s \o t)[i] = IF i <= Len(s) THEN s[i] ELSE t[i - Len(s)]
          BY <4>3, ConcatProperties
        <5>2. QED
          BY <4>3, <5>1
      <4>5. ASSUME NEW i \in 1 .. m + 1, NEW j \in 1 .. c
            PROVE  (s \o t)[(i - 1) * c + j] = seqs[i][j]
        <5>1. CASE i <= m
          <6>1. i \in 1 .. m /\ m - i \in Nat
            BY <5>1
          <6>2. (i - 1) * c + c = i * c /\ (m - i) * c \in Nat /\ i * c + (m - i) * c = m * c
            BY <6>1
          <6>3. (i - 1) * c \in Nat
            <7>1. i - 1 \in Nat
              BY <6>1
            <7>2. QED
              BY <7>1
          <6>4. (i - 1) * c + j \in 1 .. m * c
            <7>1. PICK a \in Nat, b \in Nat, d \in Nat :
                    a = (i - 1) * c /\ b = (m - i) * c /\ d = m * c
              BY <4>3, <6>2, <6>3
            <7>2. d = a + c + b
              BY <6>2, <7>1
            <7>3. a + j \in 1 .. d
              BY <7>1, <7>2
            <7>4. QED
              BY <7>1, <7>3
          <6>5. (s \o t)[(i - 1) * c + j] = s[(i - 1) * c + j]
            <7>1. PICK x : x = (i - 1) * c + j
              OBVIOUS
            <7>2. PICK d \in Nat : d = m * c
              BY <4>3
            <7>3. x \in 1 .. d
              BY <6>4, <7>1, <7>2
            <7>4. (s \o t)[x] = s[x]
              BY <4>4, <7>2, <7>3
            <7>5. QED
              BY <7>1, <7>4
          <6>6. QED
            BY <4>3, <6>1, <6>5
        <5>2. CASE i = m + 1
          <6>1. (i - 1) * c + j = m * c + j
            BY <5>2
          <6>2. m * c + j \in 1 .. m * c + c /\ ~ (m * c + j <= m * c) /\ (m * c + j) - m * c = j
            BY <4>3
          <6>3. (s \o t)[m * c + j] = t[j]
            BY <4>4, <6>2
          <6>4. QED
            BY <5>2, <6>1, <6>3 DEF t
        <5>3. i <= m \/ i = m + 1
          OBVIOUS
        <5>4. QED
          BY <5>1, <5>2, <5>3
      <4>6. (m + 1) * c = m * c + c
        OBVIOUS
      <4>7. IsJoined(s \o t, m + 1)
        BY <4>4, <4>5, <4>6
      <4>8. QED
        BY <4>2, <4>7 DEF s, t
    <3>4. QED
      BY <3>2, <3>3
  <2>6. \A m \in Nat : m \in D
    <3> HIDE DEF D
    <3>1. QED
      BY <2>4, <2>5, ByInduction
  <2>7. IsJoined(f[n], n)
    <3>1. n \in D /\ n \in 1 .. n
      BY <1>1, <1>3, <2>6
    <3>2. QED
      BY <3>1
  <2>8. QED
    BY <1>1, <2>1, <2>7 DEF n
<1>4. QED
  BY <1>2, <1>3
-----------------------------------------------------------------------------
(* What is asked for, and what is built *)

Commands == {"simulate", "run", "sweep", "compare"}

\* A simulation there is.
Live == {"built", "running", "raised", "ended"}

LEMMA Halves ==
  ASSUME NEW n \in Nat, NEW l \in Nat, n >= 1, n <= l * 2
  PROVE  \E i \in 1 .. l : /\ i = (n + 1) \div 2
                           /\ \/ n = (i - 1) * 2 + 1 /\ 2 - (n % 2) = 1
                              \/ n = (i - 1) * 2 + 2 /\ 2 - (n % 2) = 2
<1>1. PICK i \in Nat : i = (n + 1) \div 2
  OBVIOUS
<1>2. 2 * i <= n + 1 /\ n + 1 <= 2 * i + 1
  BY <1>1
<1>3. i \in 1 .. l
  BY <1>2
<1>4. CASE n = 2 * i
  <2>1. n % 2 = 0
    BY <1>4
  <2>2. QED
    BY <1>1, <1>3, <1>4, <2>1
<1>5. CASE n = 2 * i - 1
  <2>1. n % 2 = 1
    BY <1>3, <1>5
  <2>2. QED
    BY <1>1, <1>3, <1>5, <2>1
<1>6. QED
  BY <1>2, <1>4, <1>5

LEMMA SweepPlanIs ==
  /\ SweepPlan \in Seq([{"size", "pods"} -> (Nat \X Nat) \cup Nat])
  /\ \A n \in DOMAIN SweepPlan :
       /\ (n + 1) \div 2 \in DOMAIN Scales
       /\ SweepPlan[n] = [size |-> Scales[(n + 1) \div 2], pods |-> 2 - (n % 2)]
<1> DEFINE S == [{"size", "pods"} -> (Nat \X Nat) \cup Nat]
           l == Len(Scales)
           pair(i) == <<[size |-> Scales[i], pods |-> 1], [size |-> Scales[i], pods |-> 2]>>
           seqs == [i \in DOMAIN Scales |-> pair(i)]
<1>1. l \in Nat /\ DOMAIN Scales = 1 .. l /\ \A i \in 1 .. l : Scales[i] \in Nat \X Nat
  BY ScalesAssumption, LenProperties
<1>2. \A i \in 1 .. l : \A p \in {1, 2} : [size |-> Scales[i], pods |-> p] \in S
  <2> SUFFICES ASSUME NEW i \in 1 .. l, NEW p \in {1, 2} PROVE [size |-> Scales[i], pods |-> p] \in S
    OBVIOUS
  <2>1. Scales[i] \in (Nat \X Nat) \cup Nat /\ p \in (Nat \X Nat) \cup Nat
    BY <1>1
  <2>2. \E T : T = (Nat \X Nat) \cup Nat
    OBVIOUS
  <2>3. PICK T : T = (Nat \X Nat) \cup Nat
    BY <2>2
  <2>4. [size |-> Scales[i], pods |-> p] \in [{"size", "pods"} -> T]
    BY <2>1, <2>3
  <2>5. QED
    BY <2>3, <2>4
<1> HIDE DEF S
<1>3. \A i \in 1 .. l : pair(i) \in Seq(S) /\ Len(pair(i)) = 2
  BY <1>2
<1> HIDE DEF pair
<1>4. seqs \in Seq(Seq(S)) /\ Len(seqs) = l /\ DOMAIN seqs = 1 .. l
  BY <1>1, <1>3, IsASeq
<1>5. SweepPlan = FlattenSeq(seqs)
  BY DEF SweepPlan, pair
<1>6. \A i \in DOMAIN seqs : Len(seqs[i]) = 2
  BY <1>3, <1>4
<1> HIDE DEF seqs
<1>7. /\ FlattenSeq(seqs) \in Seq(S)
      /\ Len(FlattenSeq(seqs)) = l * 2
      /\ \A i \in DOMAIN seqs, j \in 1 .. 2 : FlattenSeq(seqs)[(i - 1) * 2 + j] = seqs[i][j]
  <2>1. PICK c \in Nat : c = 2
    OBVIOUS
  <2>2. /\ FlattenSeq(seqs) \in Seq(S)
        /\ Len(FlattenSeq(seqs)) = Len(seqs) * c
        /\ \A i \in DOMAIN seqs, j \in 1 .. c : FlattenSeq(seqs)[(i - 1) * c + j] = seqs[i][j]
    <3>1. \A i \in DOMAIN seqs : Len(seqs[i]) = c
      BY <1>6, <2>1
    <3>2. seqs \in Seq(Seq(S))
      BY <1>4
    <3>3. QED
      BY <3>1, <3>2, FlattenBlocks
  <2>3. QED
    BY <1>4, <2>1, <2>2
<1>8. SweepPlan \in Seq(S) /\ DOMAIN SweepPlan = 1 .. l * 2
  BY <1>1, <1>5, <1>7, LenProperties
<1>9. ASSUME NEW n \in DOMAIN SweepPlan
      PROVE  /\ (n + 1) \div 2 \in DOMAIN Scales
             /\ SweepPlan[n] = [size |-> Scales[(n + 1) \div 2], pods |-> 2 - (n % 2)]
  <2>1. n \in Nat /\ n >= 1 /\ n <= l * 2
    BY <1>1, <1>8, <1>9
  <2>2. PICK i \in 1 .. l : /\ i = (n + 1) \div 2
                            /\ \/ n = (i - 1) * 2 + 1 /\ 2 - (n % 2) = 1
                               \/ n = (i - 1) * 2 + 2 /\ 2 - (n % 2) = 2
    BY <1>1, <2>1, Halves
  <2>4. SweepPlan[n] = seqs[i][2 - (n % 2)]
    <3>1. i \in DOMAIN seqs /\ 1 \in 1 .. 2 /\ 2 \in 1 .. 2
      BY <1>4, <2>2
    <3>2. /\ FlattenSeq(seqs)[(i - 1) * 2 + 1] = seqs[i][1]
          /\ FlattenSeq(seqs)[(i - 1) * 2 + 2] = seqs[i][2]
      BY <1>7, <3>1
    <3>3. CASE n = (i - 1) * 2 + 1 /\ 2 - (n % 2) = 1
      BY <1>5, <3>2, <3>3
    <3>4. CASE n = (i - 1) * 2 + 2 /\ 2 - (n % 2) = 2
      BY <1>5, <3>2, <3>4
    <3>5. QED
      BY <2>2, <3>3, <3>4
  <2>5. seqs[i] = <<[size |-> Scales[i], pods |-> 1], [size |-> Scales[i], pods |-> 2]>>
    BY <1>1, <2>2 DEF seqs, pair
  <2>6. SweepPlan[n] = [size |-> Scales[i], pods |-> 2 - (n % 2)]
    <3>1. CASE 2 - (n % 2) = 1
      BY <2>4, <2>5, <3>1
    <3>2. CASE 2 - (n % 2) = 2
      BY <2>4, <2>5, <3>2
    <3>3. QED
      BY <2>2, <3>1, <3>2
  <2>7. QED
    BY <1>1, <2>2, <2>6
<1>10. QED
  BY <1>8, <1>9 DEF S

\* What the turns of a command assign to.
Assigned(program) ==
  CASE program = "sweep" -> {"size", "pods"}
    [] program = "compare" -> {"routing"}
    [] OTHER -> {}

LEMMA PlanIs ==
  ASSUME request \in Requests, request.program \in Commands, NEW n \in DOMAIN Plan(request)
  PROVE  /\ n \in Nat /\ n >= 1
         /\ request.program # "run" =>
              DOMAIN Plan(request)[n] = Assigned(request.program)
         /\ request.program = "run" =>
              n = 1 /\ Len(Plan(request)) = 1 /\ Plan(request)[n] = request.options
         /\ request.program = "simulate" => n = 1 /\ Len(Plan(request)) = 1
         /\ request.program = "sweep" =>
              Plan(request)[n] = [size |-> Scales[(n + 1) \div 2], pods |-> 2 - (n % 2)]
              /\ (n + 1) \div 2 \in DOMAIN Scales
         /\ request.program = "compare" =>
              Plan(request)[n] = [routing |-> <<"shortest_path", "backpressure", "geographic_greedy",
                                        "thermal_energy_aware", "physics_compute_synergy">>[n]]
              /\ n \in 1 .. 5
         /\ Len(Plan(request)) \in Nat /\ DOMAIN Plan(request) = 1 .. Len(Plan(request))
<1>1. CASE request.program = "sweep"
  <2>1. Plan(request) = SweepPlan
    BY <1>1 DEF Plan
  <2>2. Len(SweepPlan) \in Nat /\ DOMAIN SweepPlan = 1 .. Len(SweepPlan)
    BY SweepPlanIs, LenProperties
  <2>3. SweepPlan[n] = [size |-> Scales[(n + 1) \div 2], pods |-> 2 - (n % 2)]
        /\ (n + 1) \div 2 \in DOMAIN Scales
    BY <2>1, SweepPlanIs
  <2>4. DOMAIN SweepPlan[n] = {"size", "pods"}
    BY <2>3
  <2>5. QED
    BY <1>1, <2>1, <2>2, <2>3, <2>4 DEF Assigned
<1>2. CASE request.program = "compare"
  <2>1. Plan(request) = ComparePlan
    BY <1>2 DEF Plan
  <2>2. Len(ComparePlan) = 5 /\ DOMAIN ComparePlan = 1 .. 5
    BY DEF ComparePlan
  <2>3. \A i \in 1 .. 5 :
          ComparePlan[i] = [routing |-> <<"shortest_path", "backpressure", "geographic_greedy",
                                        "thermal_energy_aware", "physics_compute_synergy">>[i]]
    BY DEF ComparePlan
  <2>4. DOMAIN ComparePlan[n] = {"routing"}
    BY <2>1, <2>2, <2>3
  <2>5. QED
    BY <1>2, <2>1, <2>2, <2>3, <2>4 DEF Assigned
<1>3. CASE request.program = "run"
  <2>1. Plan(request) = <<request.options>>
    BY <1>3 DEF Plan, RunPlan
  <2>2. Len(Plan(request)) = 1 /\ DOMAIN Plan(request) = 1 .. 1 /\ Plan(request)[1] = request.options
    BY <2>1
  <2>3. QED
    BY <1>3, <2>2
<1>4. CASE request.program = "simulate"
  <2>1. Plan(request) = << <<>> >>
    BY <1>4 DEF Plan
  <2>2. Len(Plan(request)) = 1 /\ DOMAIN Plan(request) = 1 .. 1 /\ DOMAIN Plan(request)[1] = {}
    BY <2>1
  <2>3. QED
    BY <1>4, <2>2 DEF Assigned
<1>5. QED
  BY <1>1, <1>2, <1>3, <1>4 DEF Commands

LEMMA PlanIsSequence ==
  ASSUME request.program \in Commands
  PROVE  Len(Plan(request)) \in Nat /\ DOMAIN Plan(request) = 1 .. Len(Plan(request))
<1>1. CASE request.program = "sweep"
  <2>1. Plan(request) = SweepPlan
    BY <1>1 DEF Plan
  <2>2. QED
    BY <2>1, SweepPlanIs, LenProperties
<1>2. CASE request.program = "compare"
  BY <1>2 DEF Plan, ComparePlan
<1>3. CASE request.program = "run"
  BY <1>3 DEF Plan, RunPlan
<1>4. CASE request.program = "simulate"
  BY <1>4 DEF Plan
<1>5. QED
  BY <1>1, <1>2, <1>3, <1>4 DEF Commands

\* Each turn assigns to all that the turn before it did.
LEMMA OverlaidAnew ==
  ASSUME NEW base, NEW c, NEW d, DOMAIN c = DOMAIN d
  PROVE  Overlay(Overlay(base, c), d) = Overlay(base, d)
<1>1. DOMAIN Overlay(base, c) = DOMAIN base \cup DOMAIN c
  BY DEF Overlay
<1>2. \A f \in DOMAIN base \cup DOMAIN c : Overlay(base, c)[f] = IF f \in DOMAIN c THEN c[f] ELSE base[f]
  BY DEF Overlay
<1>3. DOMAIN Overlay(base, c) \cup DOMAIN d = DOMAIN base \cup DOMAIN d
  BY <1>1
<1>4. QED
  BY <1>2, <1>3 DEF Overlay
-----------------------------------------------------------------------------
Base == BaseConfig(request)

\* The configuration the step-th simulation of a command is made from.
Chosen(n) == IF n = 0 THEN Base ELSE Overlay(Base, Plan(request)[n])

CanBuild(c) == IsTranslatable(c) /\ IsBuildable(Translated(c))

\* The configuration of a command is what it was to begin with, and what the last
\* turn has assigned; so all of its simulations can be built if the first can.
PlanInv ==
  /\ request \in Requests
  /\ phase \in Live \cup {"none", "configured", "refused"}
  /\ phase \notin Live => spec = <<>>
  /\ phase = "none" => cfg = <<>> /\ step = 0
  /\ phase = "configured" =>
       /\ request.program \in Commands /\ step = 0
       /\ IsValid(Base) /\ cfg = Base
  /\ phase \in Live =>
       \/ request.program = "layers" /\ cfg = <<>> /\ spec = request.spec
       \/ /\ request.program \in Commands
          /\ IsValid(Base) /\ step \in DOMAIN Plan(request)
          /\ cfg = Chosen(step) /\ CanBuild(cfg) /\ spec = Translated(cfg)

LEMMA BaseHasFields ==
  ASSUME request \in Requests, request.program \in Commands
  PROVE  ConfigFields \subseteq DOMAIN Base
<1>1. \A c : ConfigFields \subseteq DOMAIN Overlay(DefaultConfig, c)
  BY DefaultsAssumption DEF Overlay
<1>2. CASE request.program = "simulate"
  BY <1>1, <1>2 DEF Base, BaseConfig, SimulateConfig
<1>3. CASE request.program # "simulate"
  <2>1. \A b : ConfigFields \subseteq DOMAIN LoadBaseConfig(request.file, b)
    <3>1. ConfigFields \subseteq DOMAIN LoadConfig(request.file)
      BY <1>1 DEF LoadConfig
    <3>2. QED
      BY <3>1 DEF LoadBaseConfig
  <2>2. CASE request.program = "compare"
    BY <2>1, <2>2 DEF Base, BaseConfig
  <2>3. CASE request.program \in {"run", "sweep"}
    BY <2>1, <2>3 DEF Base, BaseConfig
  <2>4. QED
    BY <1>3, <2>2, <2>3 DEF Commands
<1>4. QED
  BY <1>2, <1>3

\* The next turn of a command that has more of them.
LEMMA NextIsBuildable ==
  ASSUME request \in Requests, request.program \in Commands,
         NEW n \in DOMAIN Plan(request), n < Len(Plan(request)), CanBuild(Chosen(n))
  PROVE  /\ n + 1 \in DOMAIN Plan(request)
         /\ Chosen(n + 1) = Overlay(Chosen(n), Plan(request)[n + 1])
         /\ CanBuild(Chosen(n + 1))
<1> DEFINE c == Chosen(n)
           d == Chosen(n + 1)
<1>1. n \in Nat /\ n >= 1 /\ n + 1 \in DOMAIN Plan(request) /\ n + 1 # 0
      /\ request.program \in {"sweep", "compare"}
  BY PlanIs DEF Commands
<1>2. DOMAIN Plan(request)[n] = DOMAIN Plan(request)[n + 1]
  BY <1>1, PlanIs
<1>3. c = Overlay(Base, Plan(request)[n]) /\ d = Overlay(Base, Plan(request)[n + 1])
  BY <1>1 DEF Chosen
<1>4. d = Overlay(c, Plan(request)[n + 1])
  BY <1>2, <1>3, OverlaidAnew
<1>5. DOMAIN Plan(request)[n + 1] = Assigned(request.program)
  BY <1>1, PlanIs
<1>6. ConfigFields \subseteq DOMAIN c
  BY <1>3, BaseHasFields DEF Overlay
<1>7. \A f \in ConfigFields : d[f] = IF f \in Assigned(request.program)
                                     THEN Plan(request)[n + 1][f] ELSE c[f]
  BY <1>4, <1>5, <1>6 DEF Overlay
<1>8. d.workloads = c.workloads /\ d.profiles = c.profiles /\ d.physics = c.physics
      /\ d.metrics = c.metrics
  BY <1>7 DEF Assigned, ConfigFields
<1>9. d.pods \in Int /\ d.routing \in RoutingStrategies
  <2>1. c.pods \in Int /\ c.routing \in RoutingStrategies
    BY DEF CanBuild, IsBuildable, Translated
  <2>2. CASE request.program = "sweep"
    <3>1. Plan(request)[n + 1].pods = 2 - ((n + 1) % 2)
      BY <1>1, <2>2, PlanIs
    <3>2. 2 - ((n + 1) % 2) \in Int
      BY <1>1
    <3>3. d.pods = Plan(request)[n + 1].pods /\ d.routing = c.routing
      BY <1>7, <2>2 DEF Assigned, ConfigFields
    <3>4. QED
      BY <2>1, <3>1, <3>2, <3>3
  <2>3. CASE request.program = "compare"
    <3>1. Plan(request)[n + 1].routing =
            <<"shortest_path", "backpressure", "geographic_greedy",
              "thermal_energy_aware", "physics_compute_synergy">>[n + 1] /\ n + 1 \in 1 .. 5
      BY <1>1, <2>3, PlanIs
    <3>2. Plan(request)[n + 1].routing \in RoutingStrategies
      BY <3>1 DEF RoutingStrategies
    <3>3. d.pods = c.pods /\ d.routing = Plan(request)[n + 1].routing
      BY <1>7, <2>3 DEF Assigned, ConfigFields
    <3>4. QED
      BY <2>1, <3>2, <3>3
  <2>4. QED
    BY <1>1, <2>2, <2>3
<1> HIDE DEF c, d
<1>10. CanBuild(c)
  BY DEF c
<1>11. CanBuild(d)
  BY <1>8, <1>9, <1>10
     DEF CanBuild, IsTranslatable, IsBuildable, Translated, WorkloadsAreBuildable
<1>12. QED
  BY <1>1, <1>4, <1>11 DEF c, d

LEMMA PlanIsKept == Spec => []PlanInv
<1>1. Init => PlanInv
  BY DEF Init, InitSimulation, PlanInv, Live
<1>2. PlanInv /\ [Next]_vars => PlanInv'
  <2> SUFFICES ASSUME PlanInv, [Next]_vars PROVE PlanInv'
    OBVIOUS
  <2>1. UNCHANGED request
    BY DEF Next, vars, Configure, Launch, FromLayers, Simulate, Sweep, sessionVars
  <2>2. Base' = Base /\ Plan(request)' = Plan(request) /\ \A n : Chosen(n)' = Chosen(n)
    BY <2>1 DEF Base, Chosen
  <2>3. CASE Configure
    BY <2>1, <2>2, <2>3 DEF Configure, Refuse, PlanInv, Live, Commands, Base
  <2>4. CASE FromLayers
    BY <2>1, <2>2, <2>4 DEF FromLayers, Construct, PlanInv, Live, sessionVars
  <2>5. CASE Launch
    <3>1. request.program \in Commands /\ IsValid(Base)
      <4>1. CASE phase = "configured"
        BY <4>1 DEF PlanInv
      <4>2. CASE phase = "ended" /\ cfg # <<>>
        BY <4>2 DEF PlanInv, Live
      <4>3. QED
        BY <2>5, <4>1, <4>2 DEF Launch
    <3>2. /\ step' = step + 1 /\ step < Len(Plan(request))
          /\ cfg' = Overlay(cfg, Plan(request)[step + 1])
      BY <2>5 DEF Launch
    <3>3. CASE phase = "configured"
      <4>1. step = 0 /\ step + 1 = 1 /\ cfg = Base
        BY <3>3 DEF PlanInv
      <4>2. cfg' = Chosen(1) /\ 1 \in DOMAIN Plan(request)
        <5>1. Len(Plan(request)) \in Nat /\ DOMAIN Plan(request) = 1 .. Len(Plan(request))
          BY <3>1, PlanIsSequence
        <5>2. QED
          BY <3>2, <4>1, <5>1 DEF Chosen
      <4>3. CASE CanBuild(cfg') /\ Construct(Translated(cfg'))
        BY <2>1, <2>2, <3>1, <3>2, <4>1, <4>2, <4>3 DEF PlanInv, Construct, Live
      <4>4. CASE Refuse
        BY <2>1, <2>2, <3>3, <4>4 DEF PlanInv, Refuse, Live
      <4>5. QED
        BY <2>5, <4>3, <4>4 DEF Launch, CanBuild
    <3>4. CASE phase # "configured"
      <4>1. /\ step \in DOMAIN Plan(request) /\ cfg = Chosen(step) /\ CanBuild(cfg)
        BY <2>5, <3>1, <3>4 DEF PlanInv, Live, Launch, Commands
      <4>2. step + 1 \in DOMAIN Plan(request) /\ cfg' = Chosen(step + 1) /\ CanBuild(cfg')
        <5>1. PICK n \in DOMAIN Plan(request) : n = step
          BY <4>1
        <5>2. request \in Requests /\ CanBuild(Chosen(n)) /\ n < Len(Plan(request))
          BY <3>2, <4>1, <5>1 DEF PlanInv
        <5>3. /\ n + 1 \in DOMAIN Plan(request) /\ CanBuild(Chosen(n + 1))
              /\ Chosen(n + 1) = Overlay(Chosen(n), Plan(request)[n + 1])
          BY <3>1, <5>2, NextIsBuildable
        <5>4. QED
          BY <3>2, <4>1, <5>1, <5>3
      <4>3. Construct(Translated(cfg'))
        BY <2>5, <4>2 DEF Launch, CanBuild
      <4>4. QED
        BY <2>1, <2>2, <3>1, <3>2, <4>2, <4>3 DEF PlanInv, Construct, Live
    <3>5. QED
      BY <3>3, <3>4
  <2>6. CASE UNCHANGED <<spec, cfg, step>> /\ phase \in Live /\ phase' \in Live
    BY <2>1, <2>2, <2>6 DEF PlanInv, Live
  <2>7. CASE UNCHANGED <<spec, cfg, step, phase>>
    BY <2>1, <2>2, <2>7 DEF PlanInv, Live
  <2>8. CASE Simulate
    <3>1. UNCHANGED <<spec, cfg, step>> /\ phase \in Live /\ phase' \in Live
      BY <2>8 DEF Simulate, sessionVars, NextSimulation, Run, Turn, TopologyUpdate, PhysicsTick,
                  Snapshot, WorkloadTurn, Finish, PacketStep, Transmit, Deliver, Drop, Compute,
                  PacketUnchanged, Live, Resumes, Raise
    <3>2. QED
      BY <2>6, <3>1
  <2>9. CASE Sweep \/ UNCHANGED vars
    BY <2>7, <2>9 DEF Sweep, vars, sessionVars, simVars
  <2>10. QED
    BY <2>3, <2>4, <2>5, <2>8, <2>9 DEF Next
<1>3. QED
  BY <1>1, <1>2, PTL DEF Spec
-----------------------------------------------------------------------------
\* The configuration of a command has lists and profiles.
FieldsFit(c) ==
  /\ c.size \in Seq(Nat)
  /\ c.workloads = [i \in DOMAIN c.workloads |-> c.workloads[i]]
  /\ \A name \in WorkloadNames :
       /\ c.profiles[name].name = name
       /\ c.profiles[name].pattern \in PatternsOf(name) => IsProfile(c.profiles[name])

LEMMA OverlayFits ==
  ASSUME NEW c, FitsSchema(c)
  PROVE  FieldsFit(Overlay(DefaultConfig, c))
<1> DEFINE d == Overlay(DefaultConfig, c)
<1>1. \A f \in ConfigFields : d[f] = IF f \in DOMAIN c THEN c[f] ELSE DefaultConfig[f]
  BY DefaultsAssumption DEF Overlay
<1>2. {"size", "workloads", "profiles"} \subseteq ConfigFields
  BY DEF ConfigFields
<1>3. FitsSchema(DefaultConfig) /\ {"size", "workloads", "profiles"} \subseteq DOMAIN DefaultConfig
  BY <1>2, SchemaAssumption, DefaultsAssumption
<1> HIDE DEF d
<1>4. d.size \in Seq(Nat)
  BY <1>1, <1>2, <1>3 DEF FitsSchema
<1>5. d.workloads \in Seq(STRING)
  BY <1>1, <1>2, <1>3 DEF FitsSchema
<1>6. d.workloads = [i \in DOMAIN d.workloads |-> d.workloads[i]]
  BY <1>5
<1>7. \A name \in WorkloadNames :
        /\ d.profiles[name].name = name
        /\ d.profiles[name].pattern \in PatternsOf(name) => IsProfile(d.profiles[name])
  <2>1. CASE "profiles" \in DOMAIN c
    <3>1. d.profiles = c.profiles
      BY <1>1, <1>2, <2>1
    <3>2. QED
      BY <2>1, <3>1 DEF FitsSchema
  <2>2. CASE "profiles" \notin DOMAIN c
    <3>1. d.profiles = DefaultConfig.profiles
      BY <1>1, <1>2, <2>2
    <3>2. QED
      BY <1>3, <3>1 DEF FitsSchema
  <2>3. QED
    BY <2>1, <2>2
<1>8. QED
  BY <1>4, <1>6, <1>7 DEF FieldsFit, d

\* What a command starts from is what has been asked for.
LEMMA BaseIsAsked ==
  ASSUME request \in Requests, request.program \in Commands
  PROVE  /\ FieldsFit(Base)
         /\ \A f \in {"size", "pods", "routing", "workloads", "metrics"} : Base[f] = Setting(f)
         /\ Base.physics = Setting("physics") \cup IF IsSwitchedOn THEN SwitchedOn ELSE {}
<1> DEFINE F == {"size", "pods", "routing", "workloads", "metrics"}
<1>1. F \subseteq ConfigFields /\ "physics" \in ConfigFields /\ "profiles" \in ConfigFields
  BY DEF ConfigFields
<1>2. ConfigFields \subseteq DOMAIN DefaultConfig /\ DefaultConfig.physics = {}
  BY DefaultsAssumption
<1>3. CASE request.program = "simulate" /\ "config" \in DOMAIN request
  <2>1. Base = Overlay(DefaultConfig, request.config) /\ Asked = request.config
    BY <1>3 DEF Base, BaseConfig, SimulateConfig, Asked
  <2>2. FieldsFit(Base)
    BY <1>3, <2>1, OverlayFits, SchemaAssumption
  <2>3. \A f \in ConfigFields : Base[f] = Setting(f)
    BY <1>2, <2>1 DEF Overlay, Setting
  <2>4. ~ IsSwitchedOn
    BY <1>3 DEF IsSwitchedOn
  <2>5. QED
    BY <1>1, <2>2, <2>3, <2>4
<1>4. CASE request.program = "simulate" /\ "config" \notin DOMAIN request
  <2> DEFINE names == [i \in DOMAIN request.workloads |-> WorkloadName(request.workloads[i])]
             metrics == <<"network_metrics", "compute_metrics", "physics_metrics",
                          "topology_metrics">>
             on == IF request.physics THEN SwitchedOn ELSE {}
             c == [size |-> request.size, pods |-> request.pods, grounds |-> request.grounds,
                   routing |-> request.routing, workloads |-> names, physics |-> on,
                   metrics |-> metrics]
             a == [size |-> request.size, pods |-> request.pods, routing |-> request.routing,
                   workloads |-> names, metrics |-> metrics]
  <2>1. Base = Overlay(DefaultConfig, c)
    BY <1>4 DEF Base, BaseConfig, SimulateConfig
  <2>2. Asked = a
    BY <1>4 DEF Asked
  <2> HIDE DEF names, metrics, on
  <2>3. \A f \in F : Base[f] = a[f]
    BY <1>1, <1>2, <2>1 DEF Overlay
  <2>4. \A f \in F : Setting(f) = a[f]
    BY <2>2 DEF Setting
  <2>5. Base.physics = on /\ Setting("physics") = {}
    BY <1>1, <1>2, <2>1, <2>2 DEF Overlay, Setting
  <2>6. on = IF IsSwitchedOn THEN SwitchedOn ELSE {}
    BY <1>4 DEF on, IsSwitchedOn
  <2>7. Base.size \in Seq(Nat)
    BY <1>4, <2>3, SchemaAssumption
  <2>8. Base.workloads = names
    BY <2>3
  <2>9. names = [i \in DOMAIN names |-> names[i]]
    BY DEF names
  <2>10. Base.profiles = DefaultConfig.profiles /\ "profiles" \in DOMAIN DefaultConfig
    BY <1>1, <1>2, <2>1 DEF Overlay
  <2>11. FieldsFit(Base)
    BY <2>7, <2>8, <2>9, <2>10, SchemaAssumption DEF FieldsFit, FitsSchema
  <2>12. QED
    BY <2>3, <2>4, <2>5, <2>6, <2>11
<1>5. CASE request.program \in {"run", "sweep", "compare"}
  <2> DEFINE l == LoadConfig(request.file)
  <2>1. Asked = request.file
    BY <1>5 DEF Asked
  <2>2. \A f \in ConfigFields : l[f] = Setting(f) /\ f \in DOMAIN l
    BY <1>2, <2>1 DEF LoadConfig, Overlay, Setting
  <2>3. FieldsFit(l)
    BY <1>5, OverlayFits, SchemaAssumption DEF LoadConfig
  <2> HIDE DEF l
  <2>4. CASE IsSwitchedOn
    <3>1. Base = [l EXCEPT !.physics = @ \cup SwitchedOn]
      BY <1>5, <2>4 DEF l, IsSwitchedOn, Base, BaseConfig, LoadBaseConfig
    <3>2. \A f \in ConfigFields \ {"physics"} : Base[f] = l[f]
      BY <2>2, <3>1
    <3>3. Base.physics = l.physics \cup SwitchedOn
      BY <1>1, <2>2, <3>1
    <3>4. Base.profiles = l.profiles /\ Base.size = l.size /\ Base.workloads = l.workloads
      BY <3>2 DEF ConfigFields
    <3>5. FieldsFit(Base)
      BY <2>3, <3>4 DEF FieldsFit
    <3>6. QED
      BY <1>1, <2>2, <2>4, <3>2, <3>3, <3>5
  <2>5. CASE ~ IsSwitchedOn
    <3>1. Base = l
      BY <1>5, <2>5 DEF l, IsSwitchedOn, Base, BaseConfig, LoadBaseConfig
    <3>2. QED
      BY <1>1, <2>2, <2>3, <2>5, <3>1
  <2>6. QED
    BY <2>4, <2>5
<1>6. QED
  BY <1>3, <1>4, <1>5 DEF Commands
-----------------------------------------------------------------------------
\* What each simulation of a command is made from.
LEMMA ChosenIs ==
  ASSUME request \in Requests, request.program \in Commands, IsValid(Base),
         NEW n \in DOMAIN Plan(request)
  PROVE  LET c == Chosen(n) IN
         /\ FieldsFit(c) /\ c.size \in Nat \X Nat
         /\ c.size = IF request.program = "sweep" THEN Scales[(n + 1) \div 2] ELSE Base.size
         /\ c.pods = IF request.program = "sweep" THEN 2 - (n % 2) ELSE Base.pods
         /\ c.routing =
              CASE request.program = "compare" -> Plan(request)[n].routing
                [] request.program = "run" /\ "routing" \in DOMAIN request.options ->
                     request.options.routing
                [] OTHER -> Base.routing
         /\ \A f \in ConfigFields \ {"size", "pods", "routing"} : c[f] = Base[f]
<1> DEFINE c == Chosen(n)
           turn == Plan(request)[n]
<1>1. ConfigFields \subseteq DOMAIN Base /\ n # 0
  BY BaseHasFields, PlanIs
<1>2. \A f \in ConfigFields : c[f] = IF f \in DOMAIN turn THEN turn[f] ELSE Base[f]
  BY <1>1 DEF Chosen, Overlay
<1> HIDE DEF c, turn
<1>3. DOMAIN turn \subseteq {"size", "pods", "routing"}
      /\ (request.program = "sweep" => DOMAIN turn = {"size", "pods"})
      /\ (request.program = "compare" => DOMAIN turn = {"routing"})
      /\ (request.program = "simulate" => DOMAIN turn = {})
      /\ (request.program = "run" => turn = request.options /\ DOMAIN turn \subseteq {"routing"})
  BY PlanIs, RequestsAssumption DEF Assigned, turn, Commands
<1>4. \A f \in ConfigFields \ {"size", "pods", "routing"} : c[f] = Base[f]
  BY <1>2, <1>3
<1>5. c.size = IF request.program = "sweep" THEN Scales[(n + 1) \div 2] ELSE Base.size
  <2>1. "size" \in ConfigFields
    BY DEF ConfigFields
  <2>2. CASE request.program = "sweep"
    <3>1. turn = [size |-> Scales[(n + 1) \div 2], pods |-> 2 - (n % 2)]
      BY <2>2, PlanIs DEF turn
    <3>2. turn.size = Scales[(n + 1) \div 2]
      BY <3>1
    <3>3. QED
      BY <1>2, <1>3, <2>1, <2>2, <3>2
  <2>3. CASE request.program # "sweep"
    <3>1. "size" \notin DOMAIN turn
      BY <1>3, <2>3 DEF Commands
    <3>2. QED
      BY <1>2, <2>1, <2>3, <3>1
  <2>4. QED
    BY <2>2, <2>3
<1>6. c.pods = IF request.program = "sweep" THEN 2 - (n % 2) ELSE Base.pods
  <2>1. "pods" \in ConfigFields
    BY DEF ConfigFields
  <2>2. CASE request.program = "sweep"
    <3>1. turn = [size |-> Scales[(n + 1) \div 2], pods |-> 2 - (n % 2)]
      BY <2>2, PlanIs DEF turn
    <3>2. turn.pods = 2 - (n % 2)
      BY <3>1
    <3>3. QED
      BY <1>2, <1>3, <2>1, <2>2, <3>2
  <2>3. CASE request.program # "sweep"
    <3>1. "pods" \notin DOMAIN turn
      BY <1>3, <2>3 DEF Commands
    <3>2. QED
      BY <1>2, <2>1, <2>3, <3>1
  <2>4. QED
    BY <2>2, <2>3
<1>7. c.routing =
        CASE request.program = "compare" -> turn.routing
          [] request.program = "run" /\ "routing" \in DOMAIN request.options ->
               request.options.routing
          [] OTHER -> Base.routing
  <2>1. "routing" \in ConfigFields
    BY DEF ConfigFields
  <2>2. CASE request.program = "compare"
    BY <1>2, <1>3, <2>1, <2>2
  <2>3. CASE request.program = "run" /\ "routing" \in DOMAIN request.options
    BY <1>2, <1>3, <2>1, <2>3
  <2>4. CASE ~ (request.program = "compare") /\ ~ (request.program = "run" /\ "routing" \in DOMAIN request.options)
    <3>1. "routing" \notin DOMAIN turn
      BY <1>3, <2>4 DEF Commands
    <3>2. QED
      BY <1>2, <2>1, <2>4, <3>1
  <2>5. QED
    BY <2>2, <2>3, <2>4
<1>8. FieldsFit(Base)
  BY BaseIsAsked
<1>9. c.size \in Nat \X Nat /\ c.size \in Seq(Nat)
  <2>1. CASE request.program = "sweep"
    <3>1. (n + 1) \div 2 \in DOMAIN Scales
      BY <2>1, PlanIs
    <3>2. Scales[(n + 1) \div 2] \in Nat \X Nat
      BY <3>1, ScalesAssumption
    <3>3. \A p \in Nat \X Nat : p \in Seq(Nat)
      <4>1. \A a, b \in Nat : <<a, b>> \in Seq(Nat)
        OBVIOUS
      <4>2. \A p \in Nat \X Nat : p = <<p[1], p[2]>> /\ p[1] \in Nat /\ p[2] \in Nat
        OBVIOUS
      <4>3. QED
        BY <4>1, <4>2
    <3>4. QED
      BY <1>5, <2>1, <3>2, <3>3
  <2>2. CASE request.program # "sweep"
    <3>1. c.size \in Seq(Nat) /\ Len(c.size) = 2
      BY <1>5, <1>8, <2>2 DEF FieldsFit, IsValid
    <3>2. PICK s \in Seq(Nat) : s = c.size /\ Len(s) = 2
      BY <3>1
    <3>3. s = <<s[1], s[2]>> /\ s[1] \in Nat /\ s[2] \in Nat
      BY <3>2
    <3>4. s \in Nat \X Nat
      BY <3>3
    <3>5. QED
      BY <3>1, <3>2, <3>4
  <2>3. QED
    BY <2>1, <2>2
<1>10. FieldsFit(c)
  <2>1. c.workloads = Base.workloads /\ c.profiles = Base.profiles
    BY <1>4 DEF ConfigFields
  <2>2. QED
    BY <1>8, <1>9, <2>1 DEF FieldsFit
<1>11. QED
  BY <1>4, <1>5, <1>6, <1>7, <1>9, <1>10 DEF c, turn

\* The specification is one.
SpecTyped ==
  /\ spec.size \in Nat \X Nat /\ spec.missing \subseteq Satellites(spec.size)
  /\ spec.pods \in Int
  /\ spec.collectors \in Seq(MetricNames)
  /\ \A i \in DOMAIN spec.workloads : IsProfile(spec.workloads[i])

LEMMA SpecIsTyped ==
  ASSUME PlanInv, phase \in Live
  PROVE  SpecTyped
<1>1. CASE request.program = "layers" /\ spec = request.spec
  BY <1>1, LayersAssumption DEF PlanInv, SpecTyped, IsSpecification
<1>2. CASE /\ request.program \in Commands
           /\ IsValid(Base) /\ step \in DOMAIN Plan(request)
           /\ cfg = Chosen(step) /\ CanBuild(cfg) /\ spec = Translated(cfg)
  <2>1. FieldsFit(cfg) /\ cfg.size \in Nat \X Nat
    BY <1>2, ChosenIs DEF PlanInv
  <2>2. spec.size \in Nat \X Nat /\ spec.missing = {} /\ spec.pods \in Int
        /\ spec.collectors \in Seq(MetricNames)
    BY <1>2, <2>1 DEF Translated, CanBuild, IsBuildable, CollectorNames, MetricNames
  <2>3. ASSUME NEW i \in DOMAIN spec.workloads
        PROVE  IsProfile(spec.workloads[i])
    <3>1. i \in DOMAIN cfg.workloads /\ spec.workloads[i] = cfg.profiles[cfg.workloads[i]]
      BY <1>2, <2>3 DEF Translated
    <3>2. cfg.workloads[i] \in WorkloadNames
      BY <1>2, <3>1 DEF CanBuild, IsTranslatable, Range
    <3>3. PICK name \in WorkloadNames : name = cfg.workloads[i]
      BY <3>2
    <3>4. spec.workloads[i] = cfg.profiles[name] /\ spec.workloads[i].name = name
      BY <2>1, <3>1, <3>3 DEF FieldsFit
    <3>5. spec.workloads[i].pattern \in PatternsOf(name)
      BY <1>2, <2>3, <3>4 DEF CanBuild, IsBuildable, WorkloadsAreBuildable
    <3>6. QED
      BY <2>1, <3>4, <3>5 DEF FieldsFit
  <2>4. QED
    BY <2>2, <2>3 DEF SpecTyped
<1>3. QED
  BY <1>1, <1>2 DEF PlanInv

LEMMA BuiltAsAsked ==
  ASSUME PlanInv, spec # <<>>, request.program # "layers"
  PROVE  IsAsked(step)
<1>1. /\ request \in Requests /\ request.program \in Commands
      /\ IsValid(Base) /\ step \in DOMAIN Plan(request)
      /\ cfg = Chosen(step) /\ CanBuild(cfg) /\ spec = Translated(cfg)
  BY DEF PlanInv
<1>2. /\ FieldsFit(cfg)
      /\ cfg.size = IF request.program = "sweep" THEN Scales[(step + 1) \div 2] ELSE Base.size
      /\ cfg.pods = IF request.program = "sweep" THEN 2 - (step % 2) ELSE Base.pods
      /\ cfg.routing =
           CASE request.program = "compare" -> Plan(request)[step].routing
             [] request.program = "run" /\ "routing" \in DOMAIN request.options ->
                  request.options.routing
             [] OTHER -> Base.routing
      /\ \A f \in ConfigFields \ {"size", "pods", "routing"} : cfg[f] = Base[f]
  BY <1>1, ChosenIs
<1>3. cfg.physics = Base.physics /\ cfg.metrics = Base.metrics /\ cfg.workloads = Base.workloads
  BY <1>2 DEF ConfigFields
<1>4. /\ \A f \in {"size", "pods", "routing", "workloads", "metrics"} : Base[f] = Setting(f)
      /\ Base.physics = Setting("physics") \cup IF IsSwitchedOn THEN SwitchedOn ELSE {}
  BY <1>1, BaseIsAsked
<1>5. request.program = "compare" =>
        Plan(request)[step].routing =
          <<"shortest_path", "backpressure", "geographic_greedy",
            "thermal_energy_aware", "physics_compute_synergy">>[step]
  BY <1>1, PlanIs
<1>6. /\ spec.size = cfg.size /\ spec.pods = cfg.pods /\ spec.routing = cfg.routing
      /\ spec.models = cfg.physics /\ spec.collectors = cfg.metrics
      /\ spec.workloads = [i \in DOMAIN cfg.workloads |-> cfg.profiles[cfg.workloads[i]]]
  BY <1>1 DEF Translated
<1>7. [i \in DOMAIN spec.workloads |-> spec.workloads[i].name] = cfg.workloads
  <2>1. DOMAIN spec.workloads = DOMAIN cfg.workloads
    BY <1>6
  <2>2. \A i \in DOMAIN cfg.workloads : spec.workloads[i].name = cfg.workloads[i]
    <3> SUFFICES ASSUME NEW i \in DOMAIN cfg.workloads
                 PROVE  spec.workloads[i].name = cfg.workloads[i]
      OBVIOUS
    <3>1. cfg.workloads[i] \in WorkloadNames
      BY <1>1 DEF CanBuild, IsTranslatable, Range
    <3>2. spec.workloads[i] = cfg.profiles[cfg.workloads[i]]
      BY <1>6
    <3>3. QED
      BY <1>2, <3>1, <3>2 DEF FieldsFit
  <2>3. cfg.workloads = [i \in DOMAIN cfg.workloads |-> cfg.workloads[i]]
    BY <1>2 DEF FieldsFit
  <2>4. QED
    BY <2>1, <2>2, <2>3
<1>8. /\ spec.size = IF request.program = "sweep" THEN Scales[(step + 1) \div 2] ELSE Setting("size")
      /\ spec.pods = IF request.program = "sweep" THEN 2 - (step % 2) ELSE Setting("pods")
      /\ spec.models = Setting("physics") \cup IF IsSwitchedOn THEN SwitchedOn ELSE {}
      /\ spec.collectors = Setting("metrics")
      /\ [i \in DOMAIN spec.workloads |-> spec.workloads[i].name] = Setting("workloads")
  BY <1>2, <1>3, <1>4, <1>6, <1>7
<1>9. spec.routing =
       CASE request.program = "compare" ->
              <<"shortest_path", "backpressure", "geographic_greedy",
                "thermal_energy_aware", "physics_compute_synergy">>[step]
         [] request.program = "run" /\ "routing" \in DOMAIN request.options ->
              request.options.routing
         [] OTHER -> Setting("routing")
  BY <1>2, <1>4, <1>5, <1>6
<1>10. QED
  BY <1>8, <1>9 DEF IsAsked

\* What the report says of a collector that is there, and of one that is not.
LEMMA EntriesAreTrue ==
  ASSUME TallyOK, AllMatch, NEW name, NEW c \in Counters
  PROVE  IF \E i \in DOMAIN collectors : collectors[i] = name
         THEN \E t \in Tallies : MatchesFates(name, t) /\ Entry(Summaries, name, c) = t[c]
         ELSE Entry(Summaries, name, c) = 0
<1>1. DOMAIN Summaries = {collectors[i] : i \in DOMAIN collectors}
  BY DEF Summaries
<1>2. ASSUME name \in DOMAIN Summaries
      PROVE  \E t \in Tallies : MatchesFates(name, t) /\ Entry(Summaries, name, c) = t[c]
  <2>1. Latest(name) \in DOMAIN collectors /\ Summaries[name] = tally[Latest(name)]
    BY <1>2, SummaryOfName
  <2>2. collectors[Latest(name)] = name
    <3>1. PICK n \in DOMAIN collectors : collectors[n] = name
      BY <1>1, <1>2
    <3>2. \E i \in DOMAIN collectors :
             collectors[i] = name /\ \A j \in DOMAIN collectors : collectors[j] = name => j <= i
      BY <3>1, LatestExists DEF TallyOK
    <3>3. QED
      BY <3>2 DEF Latest
  <2>3. tally[Latest(name)] \in Tallies /\ MatchesFates(name, tally[Latest(name)])
    BY <2>1, <2>2 DEF AllMatch, TallyOK
  <2>4. Entry(Summaries, name, c) = tally[Latest(name)][c]
    BY <1>2, <2>1 DEF Entry
  <2>5. QED
    BY <2>3, <2>4
<1>3. QED
  BY <1>1, <1>2 DEF Entry

LEMMA ReportOfTallies ==
  ASSUME TallyOK, AllMatch, results = Summaries, ListenersAreComplete,
         spec.collectors \in Seq(MetricNames)
  PROVE  ReportIsTrue
<1> DEFINE listens(name) == \E i \in DOMAIN collectors : collectors[i] = name
<1>1. listens("network_metrics")
      /\ \A name : name # "network_metrics" => (listens(name) <=> Contains(spec.collectors, name))
  <2>1. Len(spec.collectors) \in Nat /\ DOMAIN spec.collectors = 1 .. Len(spec.collectors)
    BY LenProperties
  <2>2. CASE collectors = spec.collectors /\ Contains(spec.collectors, "network_metrics")
    BY <2>1, <2>2 DEF Contains
  <2>3. CASE collectors = Append(spec.collectors, "network_metrics")
    <3>1. /\ DOMAIN collectors = 1 .. Len(spec.collectors) + 1
          /\ \A i \in 1 .. Len(spec.collectors) : collectors[i] = spec.collectors[i]
          /\ collectors[Len(spec.collectors) + 1] = "network_metrics"
      BY <2>1, <2>3, AppendProperties
    <3>2. QED
      BY <2>1, <3>1 DEF Contains
  <2>4. QED
    BY <2>2, <2>3 DEF ListenersAreComplete
<1>2. NetworkSummary(results) =
       [transmitted |-> Cardinality(HopsMade),
        delivered |-> Cardinality(With({"delivered", "computed"})),
        dropped |-> Cardinality(With(Lost))]
  <2>1. /\ Entry(Summaries, "network_metrics", "transmitted") = Cardinality(HopsMade)
        /\ Entry(Summaries, "network_metrics", "delivered") = Cardinality(With({"delivered", "computed"}))
        /\ Entry(Summaries, "network_metrics", "drops") = Cardinality(With(Lost))
    BY <1>1, EntriesAreTrue DEF MatchesFates, Counters
  <2>2. QED
    BY <2>1 DEF NetworkSummary
<1>3. ComputeSummary(results).jobs_completed =
        IfCollected("compute_metrics", Cardinality(With({"computed"})))
  <2>1. Entry(Summaries, "compute_metrics", "jobs") =
          IfCollected("compute_metrics", Cardinality(With({"computed"})))
    BY <1>1, EntriesAreTrue DEF MatchesFates, Counters, IfCollected
  <2>2. QED
    BY <2>1 DEF ComputeSummary
<1>4. ComputeSummary(results).compute_drops =
          IfCollected("compute_metrics", Cardinality({i \in With(Lost) : IsComputePacket(packets[i])}))
  <2>1. Entry(Summaries, "compute_metrics", "drops") =
          IfCollected("compute_metrics", Cardinality({i \in With(Lost) : IsComputePacket(packets[i])}))
    BY <1>1, EntriesAreTrue DEF MatchesFates, Counters, IfCollected
  <2>2. QED
    BY <2>1 DEF ComputeSummary
<1>5. PhysicsSummary(results).physics_caused_drops =
        IfCollected("physics_metrics", Cardinality(With({"blamed"})))
  <2>1. Entry(Summaries, "physics_metrics", "drops") =
        IfCollected("physics_metrics", Cardinality(With({"blamed"})))
    BY <1>1, EntriesAreTrue DEF MatchesFates, Counters, IfCollected
  <2>2. QED
    BY <2>1 DEF PhysicsSummary
<1>6. TopologySummary(results).topology_updates = IfCollected("topology_metrics", version)
  <2>1. Entry(Summaries, "topology_metrics", "updates") = IfCollected("topology_metrics", version)
    BY <1>1, EntriesAreTrue DEF MatchesFates, Counters, IfCollected
  <2>2. QED
    BY <2>1 DEF TopologySummary
<1>7. ComputeSummary(results) =
       [jobs_completed |-> ComputeSummary(results).jobs_completed,
        compute_drops |-> ComputeSummary(results).compute_drops]
  BY DEF ComputeSummary
<1>8. QED
  BY <1>2, <1>3, <1>4, <1>5, <1>6, <1>7 DEF ReportIsTrue

ListenInv == phase \in Live => collectors = WithNetwork(spec.collectors)

LEMMA ListenersAreKept == Spec => []ListenInv
<1>1. Init => ListenInv
  BY DEF Init, InitSimulation, ListenInv, Live
<1>2. ListenInv /\ [Next]_vars => ListenInv'
  <2> SUFFICES ASSUME ListenInv, [Next]_vars PROVE ListenInv'
    OBVIOUS
  <2>1. CASE UNCHANGED <<spec, collectors>> /\ (phase' \in Live => phase \in Live)
    BY <2>1 DEF ListenInv
  <2>2. ASSUME NEW s, Construct(s)
        PROVE  ListenInv'
    BY <2>2 DEF Construct, ListenInv
  <2>3. CASE Refuse \/ Configure
    BY <2>3 DEF Refuse, Configure, ListenInv, Live
  <2>4. CASE Turn
    BY <2>1, <2>4 DEF Turn, TopologyUpdate, PhysicsTick, Snapshot, WorkloadTurn, Finish, metricsVars,
                      Resumes, Live
  <2>5. CASE PacketStep
    BY <2>1, <2>5 DEF PacketStep, Transmit, Deliver, Drop, Compute, PacketUnchanged
  <2>6. CASE Run
    BY <2>1, <2>6 DEF Run, metricsVars, Live
  <2>7. CASE UNCHANGED simVars
    BY <2>1, <2>7 DEF simVars, metricsVars
  <2>8. QED
    BY <2>2, <2>3, <2>4, <2>5, <2>6, <2>7
       DEF Next, vars, Launch, FromLayers, Simulate, Sweep, NextSimulation
<1>3. QED
  BY <1>1, <1>2, PTL DEF Spec

\* What listens to a simulation is what was asked for, and the network collector.
THEOREM ListenersComplete == Spec => [](spec # <<>> => ListenersAreComplete)
<1>1. PlanInv /\ ListenInv => (spec # <<>> => ListenersAreComplete)
  BY DEF PlanInv, ListenInv, ListenersAreComplete, WithNetwork
<1>2. QED
  BY <1>1, PlanIsKept, ListenersAreKept, PTL

\* However many simulations a command goes through, of whatever settings: each is
\* the one that was asked for, none is refused after another has run, and what is
\* reported is what happened.
THEOREM BuiltAndReported == Spec => []AskedIsBuilt
<1>1. PlanInv /\ TallyInv /\ ListenInv => AskedIsBuilt
  <2> SUFFICES ASSUME PlanInv, TallyInv, ListenInv
               PROVE  AskedIsBuilt
    OBVIOUS
  <2>1. phase = "refused" => spec = <<>>
    BY DEF PlanInv, Live
  <2>2. spec # <<>> /\ request.program # "layers" => IsAsked(step)
    BY BuiltAsAsked
  <2>3. ASSUME phase = "ended"
        PROVE  ReportIsTrue
    <3>1. SpecTyped
      BY <2>3, SpecIsTyped DEF Live
    <3>2. ListenersAreComplete
      BY <2>3 DEF ListenInv, ListenersAreComplete, WithNetwork, Live
    <3>3. QED
      BY <2>3, <3>1, <3>2, ReportOfTallies DEF TallyInv, SpecTyped
  <2>4. spec # <<>> => ListenersAreComplete
    BY DEF PlanInv, ListenInv, ListenersAreComplete, WithNetwork
  <2>5. QED
    BY <2>1, <2>2, <2>3, <2>4 DEF AskedIsBuilt
<1>2. QED
  BY <1>1, PlanIsKept, TalliesAreKept, ListenersAreKept, PTL
-----------------------------------------------------------------------------
\* What a round adds are packets of its own, and the ones before it are complete.
LEMMA PublishingKeepsRounds ==
  ASSUME RoundsInv, NEW k \in DOMAIN job, PublishRound(k), UNCHANGED runs
  PROVE  RoundsInv'
<1> DEFINE r0 == job[k].round
<1>1. /\ HeadersOK /\ GeneratorsOK /\ RoundsOK /\ runs \in Nat
      /\ job[k].workload.pattern \in RoundPatterns
      /\ job' = [job EXCEPT ![k].round = @ + 1]
      /\ "round" \in DOMAIN job[k] /\ r0 \in Nat
  BY DEF RoundsInv, PublishRound, GeneratorsOK
<1>2. /\ DOMAIN job' = DOMAIN job
      /\ \A j \in DOMAIN job :
           /\ DOMAIN job'[j] = DOMAIN job[j]
           /\ job'[j].workload = job[j].workload /\ job'[j].pods = job[j].pods
           /\ job'[j].round = IF j = k THEN r0 + 1 ELSE job[j].round
  BY <1>1 DEF GeneratorsOK
<1> HIDE DEF r0
<1>3. Adding(k)
  BY <1>1, RoundIsSent
<1>4. \A i \in DOMAIN packets' \ DOMAIN packets : IsFrom(k, packets'[i])
  BY <1>3 DEF Adding
<1>5. HeadersOK'
  <2>1. IsSequence(packets)'
    BY <1>3 DEF Adding
  <2>2. ASSUME NEW i \in DOMAIN packets'
        PROVE  /\ PacketFields \subseteq DOMAIN packets'[i]
               /\ packets'[i].by \in DOMAIN job'
               /\ job'[packets'[i].by].workload.pattern \in RoundPatterns =>
                    packets'[i].round \in 0 .. job'[packets'[i].by].round - 1
    <3>1. CASE i \in DOMAIN packets
      <4>1. PICK j \in DOMAIN job : j = packets[i].by
        BY <1>1, <3>1 DEF HeadersOK
      <4>2. job[j].round \in Nat /\ job'[j].round \in Nat /\ job[j].round <= job'[j].round
        BY <1>1, <1>2 DEF GeneratorsOK, r0
      <4>3. packets'[i] = packets[i]
        BY <1>3, <3>1 DEF Adding
      <4>4. job'[j].workload.pattern \in RoundPatterns => packets[i].round \in 0 .. job[j].round - 1
        BY <1>1, <1>2, <3>1, <4>1 DEF HeadersOK
      <4>5. job'[j].workload.pattern \in RoundPatterns => packets[i].round \in 0 .. job'[j].round - 1
        BY <4>2, <4>4
      <4>6. QED
        BY <1>1, <1>2, <3>1, <4>1, <4>3, <4>5 DEF HeadersOK
    <3>2. CASE i \notin DOMAIN packets
      <4>1. PacketFields \subseteq DOMAIN packets'[i] /\ packets'[i].by = k /\ packets'[i].round = r0
        BY <1>4, <3>2 DEF IsFrom, r0
      <4>2. r0 \in 0 .. (r0 + 1) - 1
        BY <1>1
      <4>3. job'[k].round = r0 + 1
        BY <1>2
      <4>4. QED
        BY <1>2, <4>1, <4>2, <4>3
    <3>3. QED
      BY <3>1, <3>2
  <2>3. QED
    BY <2>1, <2>2 DEF HeadersOK
<1>6. GeneratorsOK'
  <2> SUFFICES ASSUME NEW j \in DOMAIN job
               PROVE  /\ {"workload", "pods", "sources", "round", "left", "until"} \subseteq DOMAIN job'[j]
                      /\ j[3] \in 1 .. runs
                      /\ job'[j].pods \in SUBSET Numbered /\ IsFiniteSet(job'[j].pods)
                      /\ job'[j].pods # {}
                      /\ job'[j].round \in Nat
                      /\ job'[j].workload.pattern \notin RoundPatterns => job'[j].round = 0
    BY <1>2 DEF GeneratorsOK
  <2>1. QED
    BY <1>1, <1>2 DEF GeneratorsOK
<1>7. RoundsOK'
  <2> SUFFICES ASSUME NEW j \in DOMAIN job, job[j].workload.pattern \in RoundPatterns,
                      NEW r \in 0 .. job'[j].round - 1
               PROVE  IsComplete(job[j].workload.pattern, job[j].pods,
                                 Server(job[j].workload, job[j].pods), j, r)'
    BY <1>2 DEF RoundsOK
  <2>1. PICK pattern, pods, server : /\ pattern = job[j].workload.pattern /\ pods = job[j].pods
                                     /\ server = Server(job[j].workload, job[j].pods)
    OBVIOUS
  <2>2. /\ pattern = job'[j].workload.pattern /\ pods = job'[j].pods
        /\ server = Server(job'[j].workload, job'[j].pods)
    BY <1>2, <2>1
  <2>3. IsComplete(pattern, pods, server, j, r)'
    <3>1. CASE j = k /\ r = r0
      BY <1>1, <2>1, <3>1, RoundIsSent DEF r0
    <3>2. CASE ~ (j = k /\ r = r0)
      <4>1. job[j].round \in Nat
        BY <1>1 DEF GeneratorsOK
      <4>2. r \in 0 .. job[j].round - 1
        <5>1. CASE j = k
          <6>1. r \in 0 .. (r0 + 1) - 1 /\ r # r0
            BY <1>2, <3>2, <5>1
          <6>2. r \in 0 .. r0 - 1
            BY <1>1, <6>1
          <6>3. QED
            BY <5>1, <6>2 DEF r0
        <5>2. CASE j # k
          BY <1>2, <5>2
        <5>3. QED
          BY <5>1, <5>2
      <4>3. IsComplete(pattern, pods, server, j, r)
        BY <1>1, <2>1, <4>2 DEF RoundsOK
      <4>4. \A i \in DOMAIN packets' \ DOMAIN packets :
              ~ (packets'[i].by = j /\ packets'[i].round = r)
        BY <1>4, <3>2 DEF IsFrom, r0
      <4>5. HeadersOK /\ KeepsHeaders /\ pattern \in RoundPatterns
        BY <1>1, <1>3, <2>1 DEF Adding
      <4>6. QED
        BY <4>3, <4>4, <4>5, RoundStaysComplete
    <3>3. QED
      BY <3>1, <3>2
  <2>4. QED
    BY <2>2, <2>3
<1>8. QED
  BY <1>1, <1>5, <1>6, <1>7 DEF RoundsInv

\* What a generator of queries does.
LEMMA QueriesKeepRounds ==
  ASSUME RoundsInv, NEW k \in DOMAIN job, Emit(k) \/ UNCHANGED packets, UNCHANGED runs,
         job[k].workload.pattern \notin RoundPatterns,
         DOMAIN job' = DOMAIN job,
         \A j \in DOMAIN job : /\ DOMAIN job'[j] = DOMAIN job[j]
                               /\ job'[j].workload = job[j].workload /\ job'[j].pods = job[j].pods
                               /\ job'[j].round = job[j].round
  PROVE  RoundsInv'
<1>1. /\ HeadersOK /\ GeneratorsOK /\ RoundsOK /\ runs \in Nat
  BY DEF RoundsInv
<1>2. Adding(k)
  <2>1. CASE UNCHANGED packets
    BY <1>1, <2>1 DEF Adding, KeepsHeaders, HeadersOK, IsSequence
  <2>2. CASE Emit(k)
    <3>1. PICK s \in job[k].sources, d \in job[k].pods :
            packets' = Append(packets, Header(k, "query", s, d))
      BY <2>2 DEF Emit
    <3> DEFINE h == Header(k, "query", s, d)
    <3>2. IsFrom(k, h)
      BY HeaderIsFrom
    <3> HIDE DEF h
    <3>3. <<h>> \in Seq({h}) /\ DOMAIN <<h>> = {1} /\ <<h>>[1] = h
      OBVIOUS
    <3>4. IsSequence(<<h>>) /\ \A i \in DOMAIN <<h>> : IsFrom(k, <<h>>[i])
      BY <3>2, <3>3, SelfTyped
    <3>5. packets' = packets \o <<h>>
      BY <1>1, <3>1 DEF h, HeadersOK, IsSequence
    <3>6. QED
      BY <1>1, <3>4, <3>5, BatchIsAdded DEF HeadersOK
  <2>3. QED
    BY <2>1, <2>2
<1>3. \A i \in DOMAIN packets' \ DOMAIN packets : IsFrom(k, packets'[i])
  BY <1>2 DEF Adding
<1>4. HeadersOK'
  <2>1. IsSequence(packets)'
    BY <1>2 DEF Adding
  <2>2. ASSUME NEW i \in DOMAIN packets'
        PROVE  /\ PacketFields \subseteq DOMAIN packets'[i]
               /\ packets'[i].by \in DOMAIN job'
               /\ job'[packets'[i].by].workload.pattern \in RoundPatterns =>
                    packets'[i].round \in 0 .. job'[packets'[i].by].round - 1
    <3>1. CASE i \in DOMAIN packets
      BY <1>1, <1>2, <3>1 DEF Adding, HeadersOK
    <3>2. CASE i \notin DOMAIN packets
      BY <1>3, <3>2 DEF IsFrom
    <3>3. QED
      BY <3>1, <3>2
  <2>3. QED
    BY <2>1, <2>2 DEF HeadersOK
<1>5. GeneratorsOK'
  BY <1>1 DEF GeneratorsOK
<1>6. RoundsOK'
  <2> SUFFICES ASSUME NEW j \in DOMAIN job, job[j].workload.pattern \in RoundPatterns,
                      NEW r \in 0 .. job[j].round - 1
               PROVE  IsComplete(job[j].workload.pattern, job[j].pods,
                                 Server(job[j].workload, job[j].pods), j, r)'
    BY DEF RoundsOK
  <2>1. PICK pattern, pods, server : /\ pattern = job[j].workload.pattern /\ pods = job[j].pods
                                     /\ server = Server(job[j].workload, job[j].pods)
    OBVIOUS
  <2>2. /\ pattern = job'[j].workload.pattern /\ pods = job'[j].pods
        /\ server = Server(job'[j].workload, job'[j].pods)
    BY <2>1
  <2>3. IsComplete(pattern, pods, server, j, r)
    BY <1>1, <2>1 DEF RoundsOK
  <2>4. \A i \in DOMAIN packets' \ DOMAIN packets :
          ~ (packets'[i].by = j /\ packets'[i].round = r)
    BY <1>3 DEF IsFrom
  <2>5. HeadersOK /\ KeepsHeaders /\ pattern \in RoundPatterns
    BY <1>1, <1>2, <2>1 DEF Adding
  <2>6. IsComplete(pattern, pods, server, j, r)'
    BY <2>3, <2>4, <2>5, RoundStaysComplete
  <2>7. QED
    BY <2>2, <2>6
<1>7. QED
  BY <1>1, <1>4, <1>5, <1>6 DEF RoundsInv

LEMMA WorkKeepsRounds ==
  ASSUME RoundsInv, NEW k \in DOMAIN job, Work(k), UNCHANGED runs
  PROVE  RoundsInv'
<1>1. {"workload", "pods", "round", "left", "until"} \subseteq DOMAIN job[k]
  BY DEF RoundsInv, GeneratorsOK
<1>2. CASE PublishRound(k)
  BY <1>2, PublishingKeepsRounds
<1>3. CASE PoissonQuery(k) \/ OnOffQuery(k) \/ OnOffPause(k) \/ OnOffWindow(k) \/ BurstQuery(k)
           \/ BurstPause(k)
  <2>1. job[k].workload.pattern \notin RoundPatterns
    BY <1>3 DEF PoissonQuery, OnOffQuery, OnOffPause, OnOffWindow, BurstQuery, BurstPause,
                RoundPatterns, SyncPatterns
  <2>2. Emit(k) \/ UNCHANGED packets
    BY <1>3 DEF PoissonQuery, OnOffQuery, OnOffPause, OnOffWindow, BurstQuery, BurstPause
  <2>3. /\ DOMAIN job' = DOMAIN job
        /\ \A j \in DOMAIN job : /\ DOMAIN job'[j] = DOMAIN job[j]
                                 /\ job'[j].workload = job[j].workload
                                 /\ job'[j].pods = job[j].pods
                                 /\ job'[j].round = job[j].round
    <3>1. \/ UNCHANGED job
          \/ \E v : job' = [job EXCEPT ![k].until = v]
          \/ \E v : job' = [job EXCEPT ![k].left = v]
      BY <1>3 DEF PoissonQuery, OnOffQuery, OnOffPause, OnOffWindow, BurstQuery, BurstPause
    <3>2. ASSUME NEW v, job' = [job EXCEPT ![k].until = v] \/ job' = [job EXCEPT ![k].left = v]
          PROVE  /\ DOMAIN job' = DOMAIN job
                 /\ \A j \in DOMAIN job : j # k => job'[j] = job[j]
                 /\ DOMAIN job'[k] = DOMAIN job[k]
                 /\ job'[k].workload = job[k].workload
                 /\ job'[k].pods = job[k].pods
                 /\ job'[k].round = job[k].round
      <4>1. job' = [job EXCEPT ![k] = job'[k]]
        BY <3>2
      <4>2. job'[k] = [job[k] EXCEPT !.until = v] \/ job'[k] = [job[k] EXCEPT !.left = v]
        BY <3>2
      <4>3. QED
        BY <1>1, <4>1, <4>2
    <3>3. CASE UNCHANGED job
      BY <3>3
    <3>4. CASE ~ UNCHANGED job
      BY <3>1, <3>2, <3>4
    <3>5. QED
      BY <3>3, <3>4
  <2>4. QED
    BY <2>1, <2>2, <2>3, QueriesKeepRounds
<1>4. QED
  BY <1>2, <1>3 DEF Work
-----------------------------------------------------------------------------
\* A generator that has begun found the pods it needs.
LEMMA StartingHavePods ==
  ASSUME NEW w, IsProfile(w), NEW pods, FirstWaits(w, pods) # {}
  PROVE  pods # {}
<1> SUFFICES ASSUME pods = {} PROVE FALSE
  OBVIOUS
<1>1. Cardinality(pods) = 0
  BY FS_EmptySet
<1>2. w.pattern \in RoundPatterns \cup ArrivalPatterns
  BY DEF IsProfile, IsTrainingProfile, IsInferenceProfile, IsFederatedProfile, RoundPatterns
<1>3. CASE w.pattern \in RoundPatterns
  BY <1>1, <1>3 DEF FirstWaits
<1>4. CASE w.pattern \in {"poisson", "on_off"}
  BY <1>4 DEF FirstWaits, RoundPatterns, SyncPatterns
<1>5. CASE w.pattern = "bursty"
  BY <1>5 DEF FirstWaits, RoundPatterns, SyncPatterns
<1>6. QED
  BY <1>2, <1>3, <1>4, <1>5 DEF ArrivalPatterns

\* The generators that a call of run starts, and those there were.
LEMMA GeneratorsStart ==
  ASSUME Run
  PROVE  /\ runs' = runs + 1 /\ phase \in Live /\ UNCHANGED <<packets, spec>>
         /\ \E generators :
              /\ DOMAIN job' = DOMAIN job \cup generators
              /\ \A k \in DOMAIN job \ generators : job'[k] = job[k]
              /\ \A k \in generators :
                   /\ k[1] = "workload" /\ k[3] = runs + 1
                   /\ \E i \in Starting :
                        job'[k] = Begun(spec.workloads[i], ActivePods, Registry, now)
<1> DEFINE generators == {<<"workload", i, runs'>> : i \in Starting}
           begun(k) == Begun(spec.workloads[k[2]], ActivePods, Registry, now)
<1>1. job' = [k \in DOMAIN job \cup generators |-> IF k \in generators THEN begun(k) ELSE job[k]]
  BY DEF Run
<1>2. runs' = runs + 1 /\ phase \in Live /\ UNCHANGED <<packets, spec>>
  BY DEF Run, Live
<1>3. \A k \in generators : k[1] = "workload" /\ k[3] = runs + 1 /\ k[2] \in Starting
  BY <1>2
<1> HIDE DEF generators, begun
<1>4. /\ DOMAIN job' = DOMAIN job \cup generators
      /\ \A k \in DOMAIN job \ generators : job'[k] = job[k]
      /\ \A k \in generators : job'[k] = begun(k)
  BY <1>1
<1>5. \A k \in generators : \E i \in Starting :
        job'[k] = Begun(spec.workloads[i], ActivePods, Registry, now)
  BY <1>3, <1>4 DEF begun
<1>6. QED
  BY <1>2, <1>3, <1>4, <1>5

LEMMA RunKeepsRounds ==
  ASSUME RoundsInv, SpecTyped, Run
  PROVE  RoundsInv'
<1>1. /\ HeadersOK /\ GeneratorsOK /\ RoundsOK /\ runs \in Nat
      /\ runs' = runs + 1 /\ UNCHANGED packets
  BY GeneratorsStart DEF RoundsInv
<1>2. PICK generators :
        /\ DOMAIN job' = DOMAIN job \cup generators
        /\ \A k \in DOMAIN job \ generators : job'[k] = job[k]
        /\ \A k \in generators :
             /\ k[1] = "workload" /\ k[3] = runs + 1
             /\ \E i \in Starting :
                  job'[k] = Begun(spec.workloads[i], ActivePods, Registry, now)
  BY GeneratorsStart
<1>3. \A k \in DOMAIN job : k[3] \in 1 .. runs /\ k[3] \in 1 .. runs' /\ k[3] # runs + 1
  BY <1>1 DEF GeneratorsOK
<1>4. \A k \in DOMAIN job : k \in DOMAIN job' /\ k \notin generators /\ job'[k] = job[k]
  BY <1>2, <1>3
<1>5. ASSUME NEW k \in generators
      PROVE  /\ {"workload", "pods", "sources", "round", "left", "until"} \subseteq DOMAIN job'[k]
             /\ k[3] \in 1 .. runs'
             /\ job'[k].pods \in SUBSET Numbered /\ IsFiniteSet(job'[k].pods) /\ job'[k].pods # {}
             /\ job'[k].round = 0
  <2>1. PICK i \in Starting : job'[k] = Begun(spec.workloads[i], ActivePods, Registry, now)
    BY <1>2
  <2>2. i \in DOMAIN spec.workloads /\ FirstWaits(spec.workloads[i], ActivePods) # {}
    BY DEF Starting
  <2>3. ActivePods # {}
    BY <2>2, StartingHavePods DEF SpecTyped
  <2>4. ActivePods \in SUBSET Numbered
    BY DEF ActivePods, Pods, Numbered, SpecTyped
  <2>5. IsFiniteSet(ActivePods)
    BY PodsAreFinite DEF SpecTyped
  <2>6. /\ {"workload", "pods", "sources", "round", "left", "until"} \subseteq DOMAIN job'[k]
        /\ job'[k].pods = ActivePods /\ job'[k].round = 0
    BY <2>1 DEF Begun
  <2>7. k[3] \in 1 .. runs'
    BY <1>1, <1>2
  <2>8. QED
    BY <2>3, <2>4, <2>5, <2>6, <2>7
<1>6. HeadersOK'
  BY <1>1, <1>4 DEF HeadersOK
<1>7. GeneratorsOK'
  <2> SUFFICES ASSUME NEW k \in DOMAIN job'
               PROVE  /\ {"workload", "pods", "sources", "round", "left", "until"} \subseteq DOMAIN job'[k]
                      /\ k[3] \in 1 .. runs'
                      /\ job'[k].pods \in SUBSET Numbered /\ IsFiniteSet(job'[k].pods)
                      /\ job'[k].pods # {}
                      /\ job'[k].round \in Nat
                      /\ job'[k].workload.pattern \notin RoundPatterns => job'[k].round = 0
    BY DEF GeneratorsOK
  <2>1. CASE k \in generators
    BY <1>5, <2>1
  <2>2. CASE k \notin generators
    <3>1. k \in DOMAIN job /\ job'[k] = job[k]
      BY <1>2, <2>2
    <3>2. QED
      BY <1>1, <1>3, <3>1 DEF GeneratorsOK
  <2>3. QED
    BY <2>1, <2>2
<1>8. RoundsOK'
  <2> SUFFICES ASSUME NEW k \in DOMAIN job', job'[k].workload.pattern \in RoundPatterns,
                      NEW r \in 0 .. job'[k].round - 1
               PROVE  IsComplete(job[k].workload.pattern, job[k].pods,
                                 Server(job[k].workload, job[k].pods), k, r)'
    BY DEF RoundsOK
  <2>1. CASE k \in generators
    BY <1>5, <2>1
  <2>2. CASE k \notin generators
    <3>1. k \in DOMAIN job /\ job'[k] = job[k]
      BY <1>2, <2>2
    <3>2. PICK pattern, pods, server : /\ pattern = job[k].workload.pattern /\ pods = job[k].pods
                                       /\ server = Server(job[k].workload, job[k].pods)
      OBVIOUS
    <3>3. IsComplete(pattern, pods, server, k, r)
      BY <1>1, <3>1, <3>2 DEF RoundsOK
    <3>4. KeepsHeaders /\ DOMAIN packets' = DOMAIN packets
      BY <1>1 DEF KeepsHeaders
    <3>5. IsComplete(pattern, pods, server, k, r)'
      BY <1>1, <3>1, <3>2, <3>3, <3>4, RoundStaysComplete
    <3>6. /\ pattern = job'[k].workload.pattern /\ pods = job'[k].pods
          /\ server = Server(job'[k].workload, job'[k].pods)
      BY <3>1, <3>2
    <3>7. QED
      BY <3>5, <3>6
  <2>3. QED
    BY <2>1, <2>2
<1>9. QED
  BY <1>1, <1>6, <1>7, <1>8 DEF RoundsInv

LEMMA FatesKeepRounds ==
  ASSUME RoundsInv, PacketStep
  PROVE  RoundsInv'
<1>1. PICK n \in DOMAIN packets : Transmit(n) \/ Deliver(n) \/ Drop(n) \/ Compute(n)
  BY DEF PacketStep
<1>2. UNCHANGED <<job, runs>>
  BY <1>1 DEF Transmit, Deliver, Drop, Compute, PacketUnchanged
<1>3. \E v : packets' = [packets EXCEPT ![n].status = v] \/ packets' = [packets EXCEPT ![n].hops = v]
  BY <1>1 DEF Transmit, Deliver, Drop, Compute, Becomes
<1>4. PICK p : /\ packets' = [packets EXCEPT ![n] = p]
               /\ \E v : p = [packets[n] EXCEPT !.status = v] \/ p = [packets[n] EXCEPT !.hops = v]
  BY <1>3
<1>5. PacketFields \subseteq DOMAIN packets[n] /\ IsSequence(packets)
  BY DEF RoundsInv, HeadersOK
<1>6. /\ DOMAIN p = DOMAIN packets[n]
      /\ p.by = packets[n].by /\ p.round = packets[n].round /\ p.role = packets[n].role
      /\ p.src = packets[n].src /\ p.dst = packets[n].dst
  BY <1>4, <1>5 DEF PacketFields
<1>7. IsSequence(packets)'
  <2>1. IsSequence([packets EXCEPT ![n] = p])
    BY <1>5, Exchanged
  <2>2. QED
    BY <1>4, <2>1 DEF IsSequence
<1>8. KeepsHeaders /\ DOMAIN packets' = DOMAIN packets
  BY <1>4, <1>6 DEF KeepsHeaders
<1>9. QED
  BY <1>2, <1>7, <1>8, RoundsUndisturbed

LEMMA RoundsAreKept == Spec => []RoundsInv
<1>1. Init => RoundsInv
  <2> SUFFICES ASSUME Init PROVE RoundsInv
    OBVIOUS
  <2>1. packets = <<>> /\ job = <<>> /\ runs = 0
    BY DEF Init, InitSimulation
  <2>2. DOMAIN packets = {} /\ DOMAIN job = {} /\ packets \in Seq({packets[i] : i \in DOMAIN packets})
    BY <2>1
  <2>3. QED
    BY <2>1, <2>2 DEF RoundsInv, HeadersOK, GeneratorsOK, RoundsOK, IsSequence
<1>2. RoundsInv /\ PlanInv /\ [Next]_vars => RoundsInv'
  <2> SUFFICES ASSUME RoundsInv, PlanInv, [Next]_vars PROVE RoundsInv'
    OBVIOUS
  <2>1. CASE UNCHANGED <<packets, job, runs>>
    BY <2>1, RoundsUndisturbed DEF RoundsInv, HeadersOK, KeepsHeaders, IsSequence
  <2>2. CASE Run
    <3>1. SpecTyped
      BY <2>2, SpecIsTyped, GeneratorsStart
    <3>2. QED
      BY <2>2, <3>1, RunKeepsRounds
  <2>3. CASE Turn
    <3>1. ASSUME NEW k, WorkloadTurn(k)
          PROVE  RoundsInv'
      <4>1. CASE Work(k)
        BY <3>1, <4>1, WorkKeepsRounds DEF WorkloadTurn
      <4>2. CASE UNCHANGED <<job, packets>>
        BY <2>1, <3>1, <4>2 DEF WorkloadTurn
      <4>3. QED
        BY <3>1, <4>1, <4>2 DEF WorkloadTurn
    <3>2. QED
      BY <2>1, <2>3, <3>1 DEF Turn, TopologyUpdate, PhysicsTick, Snapshot, Finish
  <2>4. CASE PacketStep
    BY <2>4, FatesKeepRounds
  <2>5. ASSUME NEW s, Construct(s)
        PROVE  RoundsInv'
    <3>1. packets' = <<>> /\ job' = <<>> /\ runs' = 0
      BY <2>5 DEF Construct
    <3>2. DOMAIN packets' = {} /\ DOMAIN job' = {}
          /\ packets' \in Seq({packets'[i] : i \in DOMAIN packets'})
      BY <3>1
    <3>3. QED
      BY <3>1, <3>2 DEF RoundsInv, HeadersOK, GeneratorsOK, RoundsOK, IsSequence
  <2>6. QED
    BY <2>1, <2>2, <2>3, <2>4, <2>5, NextParts DEF workVars
<1>3. QED
  BY <1>1, <1>2, PlanIsKept, PTL DEF Spec

\* Whatever workloads run side by side, however many pods they found and whatever
\* has become of the pods since: every round that a generator has counted has been
\* sent in full, with the same server or aggregator each time.
THEOREM RoundsComplete == Spec => []RoundsAreComplete
<1>1. RoundsInv => RoundsAreComplete
  BY RoundsGiveProperty
<1>2. QED
  BY <1>1, RoundsAreKept, PTL
-----------------------------------------------------------------------------
(* The clock *)

\* A turn that can no longer be built is the first.
LEMMA LaterTurnsAreBuilt ==
  ASSUME PlanInv, Launch, phase # "configured"
  PROVE  Construct(Translated(cfg'))
<1>1. /\ request.program \in Commands /\ request \in Requests
      /\ step \in DOMAIN Plan(request) /\ cfg = Chosen(step) /\ CanBuild(cfg)
  BY DEF PlanInv, Live, Launch, Commands
<1>2. /\ step < Len(Plan(request)) /\ cfg' = Overlay(cfg, Plan(request)[step + 1])
  BY DEF Launch
<1>3. PICK n \in DOMAIN Plan(request) : n = step
  BY <1>1
<1>4. CanBuild(Chosen(n)) /\ n < Len(Plan(request))
  BY <1>1, <1>2, <1>3
<1>5. /\ CanBuild(Chosen(n + 1))
      /\ Chosen(n + 1) = Overlay(Chosen(n), Plan(request)[n + 1])
  BY <1>1, <1>4, NextIsBuildable
<1>6. CanBuild(cfg')
  BY <1>1, <1>2, <1>3, <1>5
<1>7. QED
  BY <1>6 DEF Launch, CanBuild

LEMMA SimulationParts ==
  ASSUME PlanInv, [Next]_vars
  PROVE  \/ Run \/ Turn \/ PacketStep
         \/ \E s : Construct(s)
         \/ /\ UNCHANGED <<workVars, metricsVars, spec, runs, graph, version, faulted, snapshot,
                           results>>
            /\ phase' = phase \/ {phase, phase'} \cap Live = {}
<1>1. CASE Configure
  BY <1>1 DEF Configure, Refuse, Live
<1>2. CASE FromLayers
  BY <1>2 DEF FromLayers
<1>3. CASE Launch
  <2>1. CASE phase = "configured"
    BY <1>3, <2>1 DEF Launch, Refuse, Live
  <2>2. CASE phase # "configured"
    BY <1>3, <2>2, LaterTurnsAreBuilt
  <2>3. QED
    BY <2>1, <2>2
<1>4. QED
  BY <1>1, <1>2, <1>3 DEF Next, vars, Simulate, Sweep, NextSimulation, simVars

Dues == \A k \in DOMAIN due : due[k] \in Nat /\ due[k] >= now

\* No process is ever late, and the clock reaches the end when there is no more to
\* come.
ClockInv ==
  /\ phase \notin Live => now = 0 /\ runs = 0
  /\ runs \in 0 .. MaxRuns
  /\ now \in 0 .. Duration
  /\ phase = "ended" <=> now = Duration
  /\ Dues
  /\ \A k \in DOMAIN job : k[1] = "workload" /\ IsProfile(job[k].workload)

LEMMA WaitsAreNumbers ==
  ASSUME NEW w, IsProfile(w), NEW pods
  PROVE  FirstWaits(w, pods) \subseteq Nat
<1>1. w.pattern \in RoundPatterns \cup ArrivalPatterns
  BY DEF IsProfile, IsTrainingProfile, IsInferenceProfile, IsFederatedProfile, RoundPatterns
<1>2. Waits \subseteq Nat
  BY TimesAssumption
<1>3. CASE w.pattern \in RoundPatterns
  <2>1. w.interval \in Nat
    BY <1>3 DEF IsProfile, IsTrainingProfile, IsInferenceProfile, IsFederatedProfile, RoundPatterns,
                SyncPatterns, ArrivalPatterns
  <2>2. FirstWaits(w, pods) = {} \/ FirstWaits(w, pods) = {w.interval}
    BY <1>3 DEF FirstWaits, RoundPatterns, SyncPatterns
  <2>3. QED
    BY <2>1, <2>2
<1>4. CASE w.pattern \in {"poisson", "on_off"}
  <2>1. w.off \in Nat
    BY <1>4 DEF IsProfile, IsTrainingProfile, IsInferenceProfile, IsFederatedProfile, SyncPatterns
  <2>2. FirstWaits(w, pods) \in {{}, {w.off}, Waits}
    BY <1>4 DEF FirstWaits, RoundPatterns, SyncPatterns
  <2>3. QED
    BY <1>2, <2>1, <2>2
<1>5. CASE w.pattern = "bursty"
  BY <1>5 DEF FirstWaits, RoundPatterns, SyncPatterns
<1>6. QED
  BY <1>1, <1>3, <1>4, <1>5 DEF ArrivalPatterns

\* What a generator does, it sleeps for some time after it, or is done.
LEMMA WorkSleeps ==
  ASSUME NEW k, IsProfile(job[k].workload), Work(k)
  PROVE  Return(k) \/ \E d \in Nat : Sleep(k, d)
<1>1. Waits \subseteq Nat
  BY TimesAssumption
<1>2. CASE PublishRound(k)
  <2>1. job[k].workload.interval \in Nat
    BY <1>2 DEF PublishRound, IsProfile, IsTrainingProfile, IsInferenceProfile, IsFederatedProfile,
                RoundPatterns, SyncPatterns, ArrivalPatterns
  <2>2. QED
    BY <1>2, <2>1 DEF PublishRound
<1>3. CASE PoissonQuery(k) \/ OnOffQuery(k) \/ OnOffWindow(k)
  BY <1>1, <1>3 DEF PoissonQuery, OnOffQuery, OnOffWindow
<1>4. CASE OnOffPause(k) \/ BurstQuery(k) \/ BurstPause(k)
  <2>1. job[k].workload.pattern \in {"on_off", "bursty"}
    BY <1>4 DEF OnOffPause, BurstQuery, BurstPause
  <2>2. {job[k].workload.off, job[k].workload.gap, job[k].workload.idle} \subseteq Nat
    BY <2>1 DEF IsProfile, IsTrainingProfile, IsInferenceProfile, IsFederatedProfile, SyncPatterns
  <2>3. QED
    BY <1>4, <2>2 DEF OnOffPause, BurstQuery, BurstPause
<1>5. QED
  BY <1>2, <1>3, <1>4 DEF Work

LEMMA WorkKeepsProfiles ==
  ASSUME NEW k, Work(k), \A j \in DOMAIN job : j[1] = "workload" /\ IsProfile(job[j].workload),
         {"workload", "pods", "sources", "round", "left", "until"} \subseteq DOMAIN job[k]
  PROVE  /\ DOMAIN job' = DOMAIN job
         /\ \A j \in DOMAIN job : /\ job'[j].workload = job[j].workload
                                  /\ job'[j].pods = job[j].pods
                                  /\ job'[j].sources = job[j].sources
<1>1. \/ UNCHANGED job
      \/ \E v : \/ job' = [job EXCEPT ![k].until = v]
                \/ job' = [job EXCEPT ![k].left = v]
                \/ job' = [job EXCEPT ![k].round = v]
  BY DEF Work, PublishRound, PoissonQuery, OnOffQuery, OnOffPause, OnOffWindow, BurstQuery, BurstPause
<1>2. ASSUME NEW v, \/ job' = [job EXCEPT ![k].until = v]
                    \/ job' = [job EXCEPT ![k].left = v]
                    \/ job' = [job EXCEPT ![k].round = v]
      PROVE  /\ DOMAIN job' = DOMAIN job
             /\ \A j \in DOMAIN job : j # k => job'[j] = job[j]
             /\ k \in DOMAIN job => /\ job'[k].workload = job[k].workload
                                    /\ job'[k].pods = job[k].pods
                                    /\ job'[k].sources = job[k].sources
  <2>1. DOMAIN job' = DOMAIN job /\ \A j \in DOMAIN job : j # k => job'[j] = job[j]
    BY <1>2
  <2>2. ASSUME k \in DOMAIN job
        PROVE  /\ job'[k].workload = job[k].workload
               /\ job'[k].pods = job[k].pods
               /\ job'[k].sources = job[k].sources
    <3>1. \/ job'[k] = [job[k] EXCEPT !.until = v]
          \/ job'[k] = [job[k] EXCEPT !.left = v]
          \/ job'[k] = [job[k] EXCEPT !.round = v]
      BY <1>2, <2>2
    <3>2. QED
      BY <3>1
  <2>3. QED
    BY <2>1, <2>2
<1>3. QED
  BY <1>1, <1>2

\* The clock goes on to the process that is due next.
LEMMA ClockGoesOn ==
  ASSUME ClockInv, NEW k \in DOMAIN due, Resumes(k),
         Return(k) \/ \E d \in Nat : Sleep(k, d)
  PROVE  now' \in 0 .. Duration /\ now' # Duration /\ Dues'
<1>1. /\ now' = due[k] /\ due[k] < Duration /\ due[k] \in Nat
      /\ \A j \in DOMAIN due : due[j] \in Nat /\ due[k] <= due[j]
  BY DEF Resumes, ClockInv, Dues
<1>2. Duration \in Nat
  BY TimesAssumption
<1>3. now' \in 0 .. Duration /\ now' # Duration
  BY <1>1, <1>2
<1>4. CASE Return(k)
  <2>1. DOMAIN due' = DOMAIN due \ {k} /\ \A j \in DOMAIN due \ {k} : due'[j] = due[j]
    BY <1>4 DEF Return
  <2>2. QED
    BY <1>1, <1>3, <2>1 DEF Dues
<1>5. ASSUME NEW d \in Nat, Sleep(k, d)
      PROVE  Dues'
  <2>1. DOMAIN due' = DOMAIN due /\ \A j \in DOMAIN due : due'[j] = IF j = k THEN due[k] + d ELSE due[j]
    BY <1>5 DEF Sleep
  <2>2. QED
    BY <1>1, <2>1 DEF Dues
<1>6. QED
  BY <1>3, <1>4, <1>5

LEMMA TurnKeepsClock ==
  ASSUME ClockInv, GeneratorsOK, Turn
  PROVE  ClockInv'
<1>1. Duration \in Nat \ {0} /\ TopologyInterval \in Nat
  BY TimesAssumption
<1>2. ASSUME NEW k \in DOMAIN due, TopologyUpdate(k) \/ PhysicsTick(k) \/ Snapshot(k) \/ WorkloadTurn(k)
      PROVE  ClockInv'
  <2>1. Resumes(k) /\ runs' = runs
    BY <1>2 DEF TopologyUpdate, PhysicsTick, Snapshot, WorkloadTurn
  <2>2. phase = "running" /\ phase' \in {"running", "raised"}
    BY <1>2, <2>1 DEF TopologyUpdate, PhysicsTick, Snapshot, WorkloadTurn, Resumes, Raise
  <2>3. Return(k) \/ \E d \in Nat : Sleep(k, d)
    <3>1. CASE TopologyUpdate(k)
      BY <1>1, <3>1 DEF TopologyUpdate, Raise
    <3>2. CASE PhysicsTick(k) \/ Snapshot(k)
      BY <3>2 DEF PhysicsTick, Snapshot
    <3>3. CASE WorkloadTurn(k)
      BY <3>3, WorkSleeps DEF WorkloadTurn, ClockInv
    <3>4. QED
      BY <1>2, <3>1, <3>2, <3>3
  <2>4. now' \in 0 .. Duration /\ now' # Duration /\ Dues'
    BY <2>1, <2>3, ClockGoesOn
  <2>5. (\A j \in DOMAIN job : j[1] = "workload" /\ IsProfile(job[j].workload))'
    <3>1. CASE UNCHANGED job
      BY <3>1 DEF ClockInv
    <3>2. CASE k \in DOMAIN job /\ Work(k)
      <4>1. \A j \in DOMAIN job : j[1] = "workload" /\ IsProfile(job[j].workload)
        BY DEF ClockInv
      <4>2. {"workload", "pods", "sources", "round", "left", "until"} \subseteq DOMAIN job[k]
        BY <3>2 DEF GeneratorsOK
      <4>3. DOMAIN job' = DOMAIN job /\ \A j \in DOMAIN job : job'[j].workload = job[j].workload
        BY <3>2, <4>1, <4>2, WorkKeepsProfiles
      <4>4. QED
        BY <4>1, <4>3
    <3>3. QED
      BY <1>2, <3>1, <3>2 DEF TopologyUpdate, PhysicsTick, Snapshot, WorkloadTurn
  <2>6. QED
    BY <2>1, <2>2, <2>4, <2>5 DEF ClockInv, Live
<1>3. CASE Finish
  BY <1>1, <1>3 DEF Finish, ClockInv, Live, Dues
<1>4. QED
  BY <1>2, <1>3 DEF Turn

LEMMA RunKeepsClock ==
  ASSUME ClockInv, SpecTyped, Run
  PROVE  ClockInv'
<1> DEFINE loops == {<<l, 0, runs'>> : l \in Loops}
           generators == {<<"workload", i, runs'>> : i \in Starting}
<1>1. /\ runs' = runs + 1 /\ runs < MaxRuns /\ phase' = "running" /\ now' = now
      /\ phase \in {"built", "raised"}
  BY DEF Run
<1>2. PICK wait :
        /\ \A k \in generators : wait[k] \in FirstWaits(spec.workloads[k[2]], ActivePods)
        /\ due' = [k \in DOMAIN due \cup loops \cup generators |->
                     IF k \in DOMAIN due THEN due[k]
                     ELSE now + IF k \in loops THEN LoopInterval(k[1]) ELSE wait[k]]
  BY DEF Run
<1>3. \A k \in generators : k[1] = "workload" /\ k[2] \in DOMAIN spec.workloads
  BY DEF Starting
<1>4. \A k \in generators : wait[k] \in Nat
  BY <1>2, <1>3, WaitsAreNumbers DEF SpecTyped
<1>5. \A k \in loops : LoopInterval(k[1]) \in Nat
  BY TimesAssumption DEF LoopInterval
<1>6. now \in Nat /\ MaxRuns \in Nat
  BY TimesAssumption DEF ClockInv
<1> HIDE DEF loops, generators
<1>7. Dues'
  <2> SUFFICES ASSUME NEW k \in DOMAIN due'
               PROVE  due'[k] \in Nat /\ due'[k] >= now
    BY <1>1 DEF Dues
  <2>1. CASE k \in DOMAIN due
    BY <1>2, <2>1 DEF ClockInv, Dues
  <2>2. CASE k \notin DOMAIN due /\ k \in loops
    BY <1>2, <1>5, <1>6, <2>2
  <2>3. CASE k \notin DOMAIN due /\ k \notin loops
    <3>1. k \in generators /\ due'[k] = now + wait[k]
      BY <1>2, <2>3
    <3>2. QED
      BY <1>4, <1>6, <3>1
  <2>4. QED
    BY <2>1, <2>2, <2>3
<1>8. (\A k \in DOMAIN job : k[1] = "workload" /\ IsProfile(job[k].workload))'
  <2>1. PICK started :
          /\ DOMAIN job' = DOMAIN job \cup started
          /\ \A k \in DOMAIN job \ started : job'[k] = job[k]
          /\ \A k \in started :
               /\ k[1] = "workload" /\ k[3] = runs + 1
               /\ \E i \in Starting :
                    job'[k] = Begun(spec.workloads[i], ActivePods, Registry, now)
    BY GeneratorsStart
  <2>2. ASSUME NEW k \in started
        PROVE  k[1] = "workload" /\ IsProfile(job'[k].workload)
    <3>1. PICK i \in Starting : job'[k] = Begun(spec.workloads[i], ActivePods, Registry, now)
      BY <2>1
    <3>2. i \in DOMAIN spec.workloads /\ job'[k].workload = spec.workloads[i]
      BY <3>1 DEF Starting, Begun
    <3>3. QED
      BY <2>1, <3>2 DEF SpecTyped
  <2>3. QED
    BY <2>1, <2>2 DEF ClockInv
<1>9. runs' \in 0 .. MaxRuns
  BY <1>1, <1>6 DEF ClockInv
<1>10. QED
  BY <1>1, <1>7, <1>8, <1>9 DEF ClockInv, Live

LEMMA ClockIsKept == Spec => []ClockInv
<1>1. Init => ClockInv
  BY TimesAssumption DEF Init, InitSimulation, ClockInv, Dues, Live
<1>2. ClockInv /\ PlanInv /\ RoundsInv /\ [Next]_vars => ClockInv'
  <2> SUFFICES ASSUME ClockInv, PlanInv, RoundsInv, [Next]_vars PROVE ClockInv'
    OBVIOUS
  <2>1. CASE Run
    BY <2>1, GeneratorsStart, SpecIsTyped, RunKeepsClock
  <2>2. CASE Turn
    BY <2>2, TurnKeepsClock DEF RoundsInv
  <2>3. CASE PacketStep
    BY <2>3 DEF PacketStep, Transmit, Deliver, Drop, Compute, PacketUnchanged, ClockInv, Dues
  <2>4. ASSUME NEW s, Construct(s)
        PROVE  ClockInv'
    BY <2>4, TimesAssumption DEF Construct, ClockInv, Dues, Live
  <2>5. CASE /\ UNCHANGED <<workVars, runs>>
             /\ phase' = phase \/ {phase, phase'} \cap Live = {}
    BY <2>5 DEF workVars, ClockInv, Dues, Live
  <2>6. QED
    BY <2>1, <2>2, <2>3, <2>4, <2>5, SimulationParts
<1>3. QED
  BY <1>1, <1>2, PlanIsKept, RoundsAreKept, PTL DEF Spec
-----------------------------------------------------------------------------
(* Who is there *)

Statuses == {"published", "delivered", "computed", "dropped", "blamed"}

\* Whatever is named is of the registry, and addressed to a pod of it.
RegistryInv ==
  /\ \A k \in DOMAIN job : job[k].pods \subseteq Pods /\ job[k].sources \subseteq Registry
  /\ \A i \in DOMAIN packets :
       /\ packets[i].status \in Statuses
       /\ packets[i].src \in Registry /\ packets[i].dst \in Pods
  /\ runs > 0 => graph \subseteq Registry \X Registry
  /\ phase \in Live => faulted \subseteq Registry

LEMMA BothWaysWithin ==
  ASSUME NEW A, NEW B, NEW S, S \subseteq A \X B, NEW R, A \subseteq R, B \subseteq R
  PROVE  BothWays(S) \subseteq R \X R
<1> SUFFICES ASSUME NEW e \in BothWays(S) PROVE e \in R \X R
  OBVIOUS
<1>1. CASE e \in S
  BY <1>1
<1>2. CASE e \notin S
  <2>1. PICK l \in S : e = <<l[2], l[1]>>
    BY <1>2 DEF BothWays
  <2>2. l[1] \in R /\ l[2] \in R
    OBVIOUS
  <2>3. QED
    BY <2>1, <2>2
<1>3. QED
  BY <1>1, <1>2

LEMMA GraphIsOfRegistry ==
  ASSUME NEW t
  PROVE  GraphAt(t) \subseteq Registry \X Registry
<1> DEFINE view == View(spec.size, t)
           isl == {l \in IslLinks(spec.size, Sats) : spec.sight => l \in view.sight}
           gsl == {l \in Sats \X Grounds : l \in view.above}
           own == {l \in Pods \X Sats : l[2] \in Nearest(view, Sats, l[1])}
<1>1. isl \subseteq Sats \X Sats
  <2>1. CASE Sats = Satellites(spec.size)
    BY <2>1 DEF IslLinks, InPlane, AcrossPlanes
  <2>2. CASE Sats # Satellites(spec.size)
    BY <2>2 DEF IslLinks, RingOf
  <2>3. QED
    BY <2>1, <2>2
<1>2. gsl \subseteq Sats \X Grounds /\ own \subseteq Pods \X Sats
  OBVIOUS
<1>3. Sats \subseteq Registry /\ Pods \subseteq Registry /\ Grounds \subseteq Registry
  BY DEF Registry
<1>4. GraphAt(t) = BothWays(isl) \cup BothWays(gsl) \cup BothWays(own)
  BY DEF GraphAt, BuildGraph
<1> HIDE DEF isl, gsl, own
<1>5. /\ BothWays(isl) \subseteq Registry \X Registry
      /\ BothWays(gsl) \subseteq Registry \X Registry
      /\ BothWays(own) \subseteq Registry \X Registry
  BY <1>1, <1>2, <1>3, BothWaysWithin
<1>6. QED
  BY <1>4, <1>5

\* The packets that a turn of a generator adds.
LEMMA WorkAdds ==
  ASSUME HeadersOK, GeneratorsOK, NEW k \in DOMAIN job, Work(k)
  PROVE  Adding(k)
<1>1. CASE PublishRound(k)
  BY <1>1, RoundIsSent
<1>2. CASE UNCHANGED packets
  BY <1>2 DEF Adding, KeepsHeaders, HeadersOK, IsSequence
<1>3. CASE Emit(k)
  <2>1. PICK s \in job[k].sources, d \in job[k].pods :
          packets' = Append(packets, Header(k, "query", s, d))
    BY <1>3 DEF Emit
  <2> DEFINE h == Header(k, "query", s, d)
  <2>2. IsFrom(k, h)
    BY HeaderIsFrom
  <2> HIDE DEF h
  <2>3. <<h>> \in Seq({h}) /\ DOMAIN <<h>> = {1} /\ <<h>>[1] = h
    OBVIOUS
  <2>4. IsSequence(<<h>>) /\ \A i \in DOMAIN <<h>> : IsFrom(k, <<h>>[i])
    BY <2>2, <2>3, SelfTyped
  <2>5. packets' = packets \o <<h>>
    BY <2>1 DEF h, HeadersOK, IsSequence
  <2>6. QED
    BY <2>4, <2>5, BatchIsAdded DEF HeadersOK
<1>4. QED
  BY <1>1, <1>2, <1>3 DEF Work, PoissonQuery, OnOffQuery, OnOffPause, OnOffWindow, BurstQuery, BurstPause

LEMMA WorkKeepsRegistry ==
  ASSUME RegistryInv, ClockInv, RoundsInv, NEW k \in DOMAIN job, Work(k),
         UNCHANGED <<spec, phase, runs, graph, faulted>>
  PROVE  RegistryInv'
<1>1. Registry' = Registry /\ Pods' = Pods
  BY DEF Registry, Sats, Pods, Grounds
<1>2. Adding(k)
  BY WorkAdds DEF RoundsInv
<1>3. /\ DOMAIN job' = DOMAIN job
      /\ \A j \in DOMAIN job : job'[j].pods = job[j].pods /\ job'[j].sources = job[j].sources
  BY WorkKeepsProfiles DEF ClockInv, RoundsInv, GeneratorsOK
<1>4. Pods \subseteq Registry
  BY DEF Registry
<1>5. ASSUME NEW i \in DOMAIN packets'
      PROVE  /\ packets'[i].status \in Statuses
             /\ packets'[i].src \in Registry /\ packets'[i].dst \in Pods
  <2>1. CASE i \in DOMAIN packets
    BY <1>2, <2>1 DEF Adding, RegistryInv
  <2>2. CASE i \notin DOMAIN packets
    <3>1. IsFrom(k, packets'[i])
      BY <1>2, <2>2 DEF Adding
    <3>2. job[k].pods \subseteq Pods /\ job[k].sources \subseteq Registry
      BY DEF RegistryInv
    <3>3. QED
      BY <1>4, <3>1, <3>2 DEF IsFrom, Statuses
  <2>3. QED
    BY <2>1, <2>2
<1>6. QED
  BY <1>1, <1>3, <1>5 DEF RegistryInv

LEMMA RunKeepsRegistry ==
  ASSUME RegistryInv, ClockInv, Run
  PROVE  RegistryInv'
<1>1. /\ runs' = runs + 1 /\ phase \in Live /\ UNCHANGED <<packets, spec, faulted>>
      /\ graph' = IF runs = 0 THEN GraphAt(0) ELSE graph
  BY DEF Run, Live
<1>2. Registry' = Registry /\ Pods' = Pods
  BY <1>1 DEF Registry, Sats, Pods, Grounds
<1>3. graph' \subseteq Registry \X Registry
  <2>1. CASE runs = 0
    BY <1>1, <2>1, GraphIsOfRegistry
  <2>2. CASE runs # 0
    <3>1. runs > 0
      BY <2>2, TimesAssumption DEF ClockInv
    <3>2. QED
      BY <1>1, <2>2, <3>1 DEF RegistryInv
  <2>3. QED
    BY <2>1, <2>2
<1>4. PICK started :
        /\ DOMAIN job' = DOMAIN job \cup started
        /\ \A k \in DOMAIN job \ started : job'[k] = job[k]
        /\ \A k \in started :
             /\ k[1] = "workload" /\ k[3] = runs + 1
             /\ \E i \in Starting :
                  job'[k] = Begun(spec.workloads[i], ActivePods, Registry, now)
  BY GeneratorsStart
<1>5. ASSUME NEW k \in started
      PROVE  job'[k].pods \subseteq Pods /\ job'[k].sources \subseteq Registry
  <2>1. PICK i \in Starting : job'[k] = Begun(spec.workloads[i], ActivePods, Registry, now)
    BY <1>4
  <2>2. /\ job'[k].pods = ActivePods
        /\ job'[k].sources = IF spec.workloads[i].sources \cap Registry = {} THEN Registry
                             ELSE spec.workloads[i].sources \cap Registry
    BY <2>1 DEF Begun
  <2>3. QED
    BY <2>2 DEF ActivePods
<1>6. QED
  BY <1>1, <1>2, <1>3, <1>4, <1>5 DEF RegistryInv

LEMMA TurnKeepsRegistry ==
  ASSUME RegistryInv, ClockInv, RoundsInv, Turn
  PROVE  RegistryInv'
<1>1. UNCHANGED spec /\ phase \in Live
  BY DEF Turn, TopologyUpdate, PhysicsTick, Snapshot, WorkloadTurn, Finish, Resumes, Live
<1>2. Registry' = Registry /\ Pods' = Pods
  BY <1>1 DEF Registry, Sats, Pods, Grounds
<1>3. CASE UNCHANGED <<job, packets, graph, faulted, runs>>
  BY <1>1, <1>2, <1>3 DEF RegistryInv
<1>4. ASSUME NEW k, TopologyUpdate(k)
      PROVE  RegistryInv'
  BY <1>1, <1>2, <1>4, GraphIsOfRegistry DEF TopologyUpdate, RegistryInv
<1>5. ASSUME NEW k, PhysicsTick(k)
      PROVE  RegistryInv'
  <2>1. Pods \subseteq Registry
    BY DEF Registry
  <2>2. faulted' \in {{}, {<<"pod", 1>>} \cap Pods} \/ faulted' = faulted
    BY <1>5 DEF PhysicsTick
  <2>3. faulted' \subseteq Registry
    BY <1>1, <2>1, <2>2 DEF RegistryInv
  <2>4. UNCHANGED <<job, packets, graph, runs>>
    BY <1>5 DEF PhysicsTick
  <2>5. QED
    BY <1>1, <1>2, <2>3, <2>4 DEF RegistryInv
<1>6. ASSUME NEW k, WorkloadTurn(k)
      PROVE  RegistryInv'
  <2>1. CASE Work(k)
    BY <1>6, <2>1, WorkKeepsRegistry DEF WorkloadTurn
  <2>2. CASE UNCHANGED <<job, packets>>
    BY <1>3, <1>6, <2>2 DEF WorkloadTurn
  <2>3. QED
    BY <1>6, <2>1, <2>2 DEF WorkloadTurn
<1>7. CASE (\E k : Snapshot(k)) \/ Finish
  BY <1>3, <1>7 DEF Snapshot, Finish
<1>8. QED
  BY <1>4, <1>5, <1>6, <1>7 DEF Turn

LEMMA FatesKeepRegistry ==
  ASSUME RegistryInv, RoundsInv, PacketStep
  PROVE  RegistryInv'
<1>1. PICK n \in DOMAIN packets : Transmit(n) \/ Deliver(n) \/ Drop(n) \/ Compute(n)
  BY DEF PacketStep
<1>2. UNCHANGED <<job, runs, spec, phase, graph, faulted>>
  BY <1>1 DEF Transmit, Deliver, Drop, Compute, PacketUnchanged
<1>3. \/ \E v \in Statuses : packets' = [packets EXCEPT ![n].status = v]
      \/ \E v : packets' = [packets EXCEPT ![n].hops = v]
  BY <1>1 DEF Transmit, Deliver, Drop, Compute, Becomes, Statuses
<1>4. PICK p : /\ packets' = [packets EXCEPT ![n] = p]
               /\ \/ \E v \in Statuses : p = [packets[n] EXCEPT !.status = v]
                  \/ \E v : p = [packets[n] EXCEPT !.hops = v]
  BY <1>3
<1>5. PacketFields \subseteq DOMAIN packets[n]
  BY DEF RoundsInv, HeadersOK
<1>6. p.src = packets[n].src /\ p.dst = packets[n].dst /\ p.status \in Statuses
  BY <1>4, <1>5 DEF PacketFields, RegistryInv
<1>7. Registry' = Registry /\ Pods' = Pods
  BY <1>2 DEF Registry, Sats, Pods, Grounds
<1>8. QED
  BY <1>2, <1>4, <1>6, <1>7 DEF RegistryInv

LEMMA RegistryIsKept == Spec => []RegistryInv
<1>1. Init => RegistryInv
  BY DEF Init, InitSimulation, RegistryInv, Live
<1>2. RegistryInv /\ ClockInv /\ PlanInv /\ RoundsInv /\ [Next]_vars => RegistryInv'
  <2> SUFFICES ASSUME RegistryInv, ClockInv, PlanInv, RoundsInv, [Next]_vars PROVE RegistryInv'
    OBVIOUS
  <2>1. ASSUME NEW s, Construct(s)
        PROVE  RegistryInv'
    BY <2>1 DEF Construct, RegistryInv
  <2>2. CASE /\ UNCHANGED <<workVars, spec, runs, graph, faulted>>
             /\ phase' = phase \/ {phase, phase'} \cap Live = {}
    <3>1. Registry' = Registry /\ Pods' = Pods
      BY <2>2 DEF Registry, Sats, Pods, Grounds
    <3>2. QED
      BY <2>2, <3>1 DEF workVars, RegistryInv
  <2>3. QED
    BY <2>1, <2>2, RunKeepsRegistry, TurnKeepsRegistry, FatesKeepRegistry, SimulationParts
<1>3. QED
  BY <1>1, <1>2, ClockIsKept, PlanIsKept, RoundsAreKept, PTL DEF Spec

\* Whatever is asked for, for all constellations and workloads: the clock never
\* runs past what is due nor past the end, packets go from nodes of the registry
\* to pods of it, and nothing is counted that is not a number.
THEOREM TypesAreRight == Spec => []TypeOK
<1>1. PlanInv /\ ClockInv /\ RegistryInv /\ RoundsInv /\ TallyInv => TypeOK
  <2> SUFFICES ASSUME PlanInv, ClockInv, RegistryInv, RoundsInv, TallyInv PROVE TypeOK
    OBVIOUS
  <2>1. phase \in {"none", "configured", "refused", "built", "running", "raised", "ended"}
    BY DEF PlanInv, Live
  <2>2. /\ runs \in 0 .. MaxRuns /\ now \in 0 .. Duration
        /\ phase = "ended" <=> now = Duration
        /\ \A k \in DOMAIN due : due[k] \in Nat /\ (phase = "running" => due[k] >= now)
    BY DEF ClockInv, Dues
  <2>3. \A k \in DOMAIN job : k[1] = "workload" /\ k[3] \in 1 .. runs
    BY DEF ClockInv, RoundsInv, GeneratorsOK
  <2>4. \A i \in DOMAIN packets :
          /\ packets[i].status \in {"published", "delivered", "computed", "dropped", "blamed"}
          /\ packets[i].hops \in 0 .. MaxHops
          /\ packets[i].src \in Registry /\ packets[i].dst \in Pods
    BY DEF RegistryInv, Statuses, TallyInv, PacketsOK
  <2>5. /\ Len(tally) = Len(collectors)
        /\ \A i \in DOMAIN tally : tally[i] \in [Counters -> Nat]
    <3>1. Len(collectors) \in Nat /\ DOMAIN collectors = 1 .. Len(collectors)
          /\ tally \in [DOMAIN collectors -> Tallies]
      BY LenProperties DEF TallyInv, TallyOK
    <3>2. tally \in [1 .. Len(collectors) -> Tallies]
      BY <3>1
    <3>3. tally \in Seq(Tallies)
      BY <3>1, <3>2, SeqDef
    <3>4. Len(tally) \in Nat /\ DOMAIN tally = 1 .. Len(tally)
      BY <3>3, LenProperties
    <3>5. 1 .. Len(tally) = 1 .. Len(collectors)
      BY <3>1, <3>4
    <3>6. QED
      BY <3>1, <3>4, <3>5 DEF Tallies
  <2>6. /\ runs > 0 => graph \subseteq Registry \X Registry
        /\ version \in Nat
    BY DEF RegistryInv, TallyInv, TallyOK
  <2>7. runs > 0 => faulted \subseteq Registry
    <3>1. runs > 0 => phase \in Live
      BY DEF ClockInv
    <3>2. QED
      BY <3>1 DEF RegistryInv
  <2>8. QED
    BY <2>1, <2>2, <2>3, <2>4, <2>5, <2>6, <2>7 DEF TypeOK
<1>2. QED
  BY <1>1, PlanIsKept, ClockIsKept, RegistryIsKept, RoundsAreKept, TalliesAreKept, PTL
-----------------------------------------------------------------------------
(* What is reached *)

\* W[i] is reached from n in at most i steps.
IsSpread(links, N, n, W) ==
  /\ W[0] = {n}
  /\ \A i \in Nat : W[i + 1] = W[i] \cup {m \in N : \E k \in W[i] : <<k, m>> \in links}

LEMMA ReachedBySpread ==
  ASSUME NEW links, NEW N, NEW n \in N, Cardinality(N) \in Nat
  PROVE  \E W : IsSpread(links, N, n, W) /\ Reached(links, N, n) = W[Cardinality(N)]
<1> DEFINE next(S) == S \cup {m \in N : \E k \in S : <<k, m>> \in links}
           D == SUBSET N
           on == [i \in Nat |-> [S \in D |-> next(S)]]
           Def(g) == [i \in Nat |-> IF i = 0 THEN {n} ELSE next(g[i - 1])]
           W == CHOOSE g : g = Def(g)
<1>1. Reached(links, N, n) = W[Cardinality(N)]
  BY DEF Reached
<1>2. \E f : f = Def(f)
  <2>1. {n} \in D /\ on \in [Nat -> [D -> D]]
    OBVIOUS
  <2>2. \A i \in Nat, S \in D : on[i][S] = next(S)
    OBVIOUS
  <2> HIDE DEF on, D
  <2>3. PICK f : Follows(D, {n}, on, f)
    BY <2>1, RecursionHolds
  <2> HIDE DEF next
  <2>4. \A i \in Nat : f[i + 1] = next(f[i])
    BY <2>2, <2>3 DEF Follows
  <2>5. ASSUME NEW i \in Nat
        PROVE  f[i] = IF i = 0 THEN {n} ELSE next(f[i - 1])
    <3>1. CASE i = 0
      BY <2>3, <3>1 DEF Follows
    <3>2. CASE i # 0
      <4>1. i - 1 \in Nat /\ (i - 1) + 1 = i
        BY <3>2
      <4>2. QED
        BY <2>4, <3>2, <4>1
    <3>3. QED
      BY <3>1, <3>2
  <2>6. f = [i \in Nat |-> f[i]]
    BY <2>3 DEF Follows
  <2>7. f = Def(f)
    BY <2>5, <2>6
  <2>8. QED
    BY <2>7
<1>3. W = Def(W)
  BY <1>2, Zenon
<1> HIDE DEF W
<1>4. \A i \in Nat : W[i] = IF i = 0 THEN {n} ELSE next(W[i - 1])
  BY <1>3
<1>5. W[0] = {n}
  BY <1>4
<1>6. ASSUME NEW i \in Nat
      PROVE  W[i + 1] = next(W[i])
  <2>1. i + 1 \in Nat /\ i + 1 # 0 /\ (i + 1) - 1 = i
    OBVIOUS
  <2> HIDE DEF next
  <2>2. QED
    BY <1>4, <2>1
<1>7. IsSpread(links, N, n, W)
  BY <1>5, <1>6 DEF IsSpread
<1>8. QED
  BY <1>1, <1>7

IsClosed(links, N, C) == \A k \in C, m \in N : <<k, m>> \in links => m \in C

\* As long as something is added, there is one more each time; so as many steps
\* as there are nodes are enough.
LEMMA ReachedIsClosed ==
  ASSUME NEW links, NEW N, IsFiniteSet(N), NEW n \in N
  PROVE  n \in Reached(links, N, n) /\ IsClosed(links, N, Reached(links, N, n))
<1>1. Cardinality(N) \in Nat
  BY FS_CardinalityType
<1>2. PICK W : IsSpread(links, N, n, W) /\ Reached(links, N, n) = W[Cardinality(N)]
  BY <1>1, ReachedBySpread
<1> DEFINE T == {i \in Nat : /\ n \in W[i] /\ W[i] \subseteq N
                             /\ Cardinality(W[i]) > i \/ IsClosed(links, N, W[i])}
<1>3. 0 \in T
  <2>1. W[0] = {n}
    BY <1>2 DEF IsSpread
  <2>2. Cardinality({n}) = 1
    BY FS_Singleton
  <2>3. Cardinality(W[0]) > 0
    BY <2>1, <2>2
  <2>4. QED
    BY <2>1, <2>3
<1>4. ASSUME NEW i \in Nat, i \in T
      PROVE  i + 1 \in T
  <2>1. W[i + 1] = W[i] \cup {m \in N : \E k \in W[i] : <<k, m>> \in links}
    BY <1>2 DEF IsSpread
  <2>2. n \in W[i] /\ W[i] \subseteq N
        /\ (Cardinality(W[i]) > i \/ IsClosed(links, N, W[i]))
    BY <1>4
  <2>3. n \in W[i + 1] /\ W[i + 1] \subseteq N
    BY <2>1, <2>2
  <2>4. CASE IsClosed(links, N, W[i])
    <3>1. W[i + 1] = W[i]
      BY <2>1, <2>4 DEF IsClosed
    <3>2. QED
      BY <2>3, <2>4, <3>1
  <2>5. CASE ~ IsClosed(links, N, W[i])
    <3>1. W[i] # W[i + 1] /\ W[i] \in SUBSET W[i + 1]
      BY <2>1, <2>5 DEF IsClosed
    <3>2. IsFiniteSet(W[i + 1])
      BY <2>3, FS_Subset
    <3>3. /\ IsFiniteSet(W[i]) /\ Cardinality(W[i]) <= Cardinality(W[i + 1])
          /\ Cardinality(W[i]) # Cardinality(W[i + 1])
      BY <3>1, <3>2, FS_Subset
    <3>4. Cardinality(W[i]) \in Nat /\ Cardinality(W[i + 1]) \in Nat
      BY <3>2, <3>3, FS_CardinalityType
    <3>5. Cardinality(W[i + 1]) > i + 1
      BY <2>2, <2>5, <3>3, <3>4
    <3>6. QED
      BY <2>3, <3>5
  <2>6. QED
    BY <2>4, <2>5
<1>5. \A i \in Nat : i \in T
  <2> HIDE DEF T
  <2>1. QED
    BY <1>3, <1>4, ByInduction
<1> DEFINE c == Cardinality(N)
<1>6. /\ n \in W[c] /\ W[c] \subseteq N
      /\ Cardinality(W[c]) > c \/ IsClosed(links, N, W[c])
  BY <1>1, <1>5
<1>7. Cardinality(W[c]) <= c /\ Cardinality(W[c]) \in Nat
  BY <1>6, FS_Subset, FS_CardinalityType
<1>8. IsClosed(links, N, W[c])
  BY <1>1, <1>6, <1>7
<1>9. QED
  BY <1>2, <1>6, <1>8
-----------------------------------------------------------------------------
(* The ring *)

\* Numbers are multiplied in order.
LEMMA ProductsAreOrdered ==
  ASSUME NEW a \in Nat, NEW b \in Nat, NEW c \in Nat, a < b
  PROVE  a * c + c <= b * c
<1>1. PICK d \in Nat : b = a + 1 + d
  <2>1. b - a - 1 \in Nat /\ b = a + 1 + (b - a - 1)
    OBVIOUS
  <2>2. QED
    BY <2>1
<1>2. b * c = a * c + c + d * c
  BY <1>1
<1>3. a * c \in Nat /\ d * c \in Nat
  OBVIOUS
<1>4. QED
  BY <1>2, <1>3

Key(c, x) == x[2] * c[2] + x[3]

LEMMA KeysAreOrdered ==
  ASSUME NEW c \in Nat \X Nat, NEW a \in Satellites(c), NEW b \in Satellites(c)
  PROVE  /\ Key(c, a) \in Nat
         /\ IsBefore(a, b) <=> Key(c, a) < Key(c, b)
         /\ a = b \/ IsBefore(a, b) \/ IsBefore(b, a)
<1>1. PICK p \in 0 .. c[1] - 1, s \in 0 .. c[2] - 1 : a = <<"sat", p, s>>
  BY DEF Satellites
<1>2. PICK q \in 0 .. c[1] - 1, t \in 0 .. c[2] - 1 : b = <<"sat", q, t>>
  BY DEF Satellites
<1>3. c[1] \in Nat /\ c[2] \in Nat
  OBVIOUS
<1> DEFINE n == c[2]
<1>4. /\ p < q => p * n + n <= q * n
      /\ q < p => q * n + n <= p * n
  BY <1>3, ProductsAreOrdered
<1>5. p * n \in Nat /\ q * n \in Nat
  BY <1>3
<1>6. PICK x \in Nat, y \in Nat : x = p * n /\ y = q * n
  BY <1>5
<1>7. Key(c, a) = x + s /\ Key(c, b) = y + t
  BY <1>1, <1>2, <1>6 DEF Key
<1>8. IsBefore(a, b) <=> p < q \/ (p = q /\ s < t)
  BY <1>1, <1>2 DEF IsBefore
<1>9. IsBefore(b, a) <=> q < p \/ (p = q /\ t < s)
  BY <1>1, <1>2 DEF IsBefore
<1>10. /\ p < q => x + n <= y
       /\ q < p => y + n <= x
       /\ p = q => x = y
  BY <1>4, <1>6
<1>11. s < n /\ t < n /\ n \in Nat /\ s \in Nat /\ t \in Nat
  BY <1>3
<1>12. IsBefore(a, b) <=> x + s < y + t
  <2> HIDE DEF n
  <2>1. QED
    BY <1>8, <1>10, <1>11
<1>13. a = b \/ IsBefore(a, b) \/ IsBefore(b, a)
  BY <1>1, <1>2, <1>8, <1>9
<1>14. QED
  BY <1>7, <1>11, <1>12, <1>13

AreNeighbours(S, p, q) == IsBefore(p, q) /\ ~ \E k \in S : IsBefore(p, k) /\ IsBefore(k, q)

\* Where some are of one kind and the others of another, two neighbours differ.
LEMMA NeighboursDiffer ==
  ASSUME NEW c \in Nat \X Nat, NEW A, NEW B, A \cup B \subseteq Satellites(c),
         NEW a \in A, NEW b \in B, IsBefore(a, b)
  PROVE  \E p \in A, q \in B : AreNeighbours(A \cup B, p, q)
<1> DEFINE pairs == {e \in A \X B : IsBefore(e[1], e[2])}
           Gap(e) == Key(c, e[2]) - Key(c, e[1])
           gaps == {Gap(e) : e \in pairs}
<1>1. \A p, q \in A \cup B :
        Key(c, p) \in Nat /\ (IsBefore(p, q) <=> Key(c, p) < Key(c, q))
  BY KeysAreOrdered
<1>2. \A e \in pairs : Gap(e) \in Nat
  BY <1>1
<1>3. <<a, b>> \in pairs
  OBVIOUS
<1>4. gaps # {} /\ gaps \subseteq Nat
  BY <1>2, <1>3
<1>5. PICK g \in gaps : \A h \in gaps : g <= h
  <2> HIDE DEF gaps
  <2>1. QED
    BY <1>4, LeastNumber
<1>6. PICK e \in pairs : \A f \in pairs : Gap(e) <= Gap(f)
  BY <1>5
<1>7. e[1] \in A /\ e[2] \in B /\ IsBefore(e[1], e[2])
  OBVIOUS
<1>8. ASSUME NEW k \in A \cup B, IsBefore(e[1], k), IsBefore(k, e[2])
      PROVE  FALSE
  <2>1. Key(c, e[1]) < Key(c, k) /\ Key(c, k) < Key(c, e[2])
    BY <1>1, <1>7, <1>8
  <2>2. Key(c, e[1]) \in Nat /\ Key(c, k) \in Nat /\ Key(c, e[2]) \in Nat
    BY <1>1, <1>7
  <2>3. CASE k \in A
    <3>1. <<k, e[2]>> \in pairs
      BY <1>7, <1>8, <2>3
    <3>2. Gap(e) <= Key(c, e[2]) - Key(c, k)
      BY <1>6, <3>1
    <3>3. QED
      BY <2>1, <2>2, <3>2
  <2>4. CASE k \in B
    <3>1. <<e[1], k>> \in pairs
      BY <1>7, <1>8, <2>4
    <3>2. Gap(e) <= Key(c, k) - Key(c, e[1])
      BY <1>6, <3>1
    <3>3. QED
      BY <2>1, <2>2, <3>2
  <2>5. QED
    BY <2>3, <2>4
<1>9. QED
  BY <1>7, <1>8 DEF AreNeighbours

LEMMA RingIsConnected ==
  ASSUME NEW c \in Nat \X Nat, NEW sats, sats \subseteq Satellites(c),
         NEW links, BothWays(RingOf(sats)) \subseteq links,
         NEW C, IsClosed(links, sats, C), NEW s \in sats, s \in C
  PROVE  sats \subseteq C
<1> SUFFICES ASSUME NEW u \in sats, u \notin C
             PROVE  FALSE
  OBVIOUS
<1> DEFINE A == {x \in sats : x \in C}
           B == {x \in sats : x \notin C}
<1>1. A \cup B = sats /\ s \in A /\ u \in B /\ s # u
  OBVIOUS
<1>2. IsBefore(s, u) \/ IsBefore(u, s)
  BY <1>1, KeysAreOrdered
<1>3. ASSUME NEW p \in sats, NEW q \in sats, AreNeighbours(sats, p, q)
      PROVE  <<p, q>> \in links /\ <<q, p>> \in links
  <2>1. <<p, q>> \in RingOf(sats)
    BY <1>3 DEF RingOf, AreNeighbours
  <2>2. <<p, q>> \in BothWays(RingOf(sats)) /\ <<q, p>> \in BothWays(RingOf(sats))
    BY <2>1 DEF BothWays
  <2>3. QED
    BY <2>2
<1>4. CASE IsBefore(s, u)
  <2>1. PICK p \in A, q \in B : AreNeighbours(A \cup B, p, q)
    <3>1. A \cup B \subseteq Satellites(c)
      OBVIOUS
    <3> HIDE DEF A, B
    <3>2. QED
      BY <1>1, <1>4, <3>1, NeighboursDiffer, Zenon
  <2>2. <<p, q>> \in links
    BY <1>1, <1>3, <2>1
  <2>3. QED
    BY <2>2 DEF IsClosed
<1>5. CASE IsBefore(u, s)
  <2>1. PICK p \in B, q \in A : AreNeighbours(B \cup A, p, q)
    <3>1. B \cup A \subseteq Satellites(c)
      OBVIOUS
    <3> HIDE DEF A, B
    <3>2. QED
      BY <1>1, <1>5, <3>1, NeighboursDiffer, Zenon
  <2>2. <<q, p>> \in links
    <3>1. AreNeighbours(sats, p, q)
      BY <1>1, <2>1
    <3>2. QED
      BY <1>3, <2>1, <3>1
  <2>3. QED
    BY <2>2 DEF IsClosed
<1>6. QED
  BY <1>2, <1>4, <1>5
-----------------------------------------------------------------------------
(* The grid *)

\* What does not change from one number to the next does not change at all.
LEMMA NumbersAlike ==
  ASSUME NEW n \in Nat, NEW X, \A i \in Nat : i + 1 < n => (i \in X <=> i + 1 \in X)
  PROVE  \A i, j \in 0 .. n - 1 : i \in X => j \in X
<1> DEFINE S == {i \in Nat : i < n => (i \in X <=> 0 \in X)}
<1>1. 0 \in S
  OBVIOUS
<1>2. ASSUME NEW i \in Nat, i \in S
      PROVE  i + 1 \in S
  BY <1>2
<1>3. \A i \in Nat : i \in S
  <2> HIDE DEF S
  <2>1. QED
    BY <1>1, <1>2, ByInduction
<1>4. QED
  BY <1>3

LEMMA GridIsConnected ==
  ASSUME NEW c \in Nat \X Nat,
         NEW links, BothWays(InPlane(c) \cup AcrossPlanes(c)) \subseteq links,
         NEW C, IsClosed(links, Satellites(c), C), NEW s \in Satellites(c), s \in C
  PROVE  Satellites(c) \subseteq C
<1>1. c[1] \in Nat /\ c[2] \in Nat
  OBVIOUS
<1>2. PICK p0 \in 0 .. c[1] - 1, s0 \in 0 .. c[2] - 1 : s = <<"sat", p0, s0>>
  BY DEF Satellites
<1>3. \A p \in 0 .. c[1] - 1, i \in 0 .. c[2] - 1 : <<"sat", p, i>> \in Satellites(c)
  BY DEF Satellites
<1>4. ASSUME NEW x \in Satellites(c), NEW y \in Satellites(c),
             <<x, y>> \in InPlane(c) \cup AcrossPlanes(c)
      PROVE  x \in C <=> y \in C
  <2>1. <<x, y>> \in links /\ <<y, x>> \in links
    BY <1>4 DEF BothWays
  <2>2. QED
    BY <2>1 DEF IsClosed
<1>5. ASSUME NEW p \in 0 .. c[1] - 1, NEW i \in 0 .. c[2] - 1, <<"sat", p, i>> \in C,
             NEW j \in 0 .. c[2] - 1
      PROVE  <<"sat", p, j>> \in C
  <2> DEFINE X == {k \in Nat : <<"sat", p, k>> \in C}
  <2>1. ASSUME NEW k \in Nat, k + 1 < c[2]
        PROVE  k \in X <=> k + 1 \in X
    <3>1. (k + 1) % c[2] = k + 1 /\ k \in 0 .. c[2] - 1 /\ k + 1 \in 0 .. c[2] - 1
      BY <1>1, <2>1
    <3>2. <<"sat", p, k>> \in Satellites(c) /\ <<"sat", p, k + 1>> \in Satellites(c)
      BY <1>3, <3>1
    <3>3. << <<"sat", p, k>>, <<"sat", p, k + 1>> >> \in InPlane(c)
      BY <3>1, <3>2 DEF InPlane
    <3>4. QED
      BY <1>4, <3>2, <3>3
  <2>2. i \in X
    BY <1>5
  <2>3. j \in X
    <3> HIDE DEF X
    <3>1. QED
      BY <1>1, <2>1, <2>2, NumbersAlike
  <2>4. QED
    BY <2>3
<1>6. ASSUME NEW p \in 0 .. c[1] - 1, NEW i \in 0 .. c[2] - 1, <<"sat", p, i>> \in C,
             NEW q \in 0 .. c[1] - 1
      PROVE  <<"sat", q, i>> \in C
  <2> DEFINE X == {k \in Nat : <<"sat", k, i>> \in C}
  <2>1. ASSUME NEW k \in Nat, k + 1 < c[1]
        PROVE  k \in X <=> k + 1 \in X
    <3>1. (k + 1) % c[1] = k + 1 /\ k \in 0 .. c[1] - 1 /\ k + 1 \in 0 .. c[1] - 1 /\ k # k + 1
      BY <1>1, <2>1
    <3>2. <<"sat", k, i>> \in Satellites(c) /\ <<"sat", k + 1, i>> \in Satellites(c)
          /\ <<"sat", k, i>> # <<"sat", k + 1, i>>
      BY <1>3, <3>1
    <3>3. << <<"sat", k, i>>, <<"sat", k + 1, i>> >> \in AcrossPlanes(c)
      BY <3>1, <3>2 DEF AcrossPlanes
    <3>4. QED
      BY <1>4, <3>2, <3>3
  <2>2. p \in X
    BY <1>6
  <2>3. q \in X
    <3> HIDE DEF X
    <3>1. QED
      BY <1>1, <2>1, <2>2, NumbersAlike
  <2>4. QED
    BY <2>3
<1>7. ASSUME NEW q \in 0 .. c[1] - 1, NEW j \in 0 .. c[2] - 1
      PROVE  <<"sat", q, j>> \in C
  <2>1. <<"sat", p0, j>> \in C
    BY <1>2, <1>5
  <2>2. QED
    BY <1>6, <2>1
<1>8. QED
  BY <1>7 DEF Satellites
-----------------------------------------------------------------------------
(* The graph as it is built *)

LEMMA SatellitesAreFinite ==
  ASSUME NEW c \in Nat \X Nat
  PROVE  IsFiniteSet(Satellites(c))
<1> DEFINE places == (0 .. c[1] - 1) \X (0 .. c[2] - 1)
           f == [x \in Satellites(c) |-> <<x[2], x[3]>>]
<1>1. IsFiniteSet(places)
  <2>1. 0 \in Int /\ c[1] - 1 \in Int /\ c[2] - 1 \in Int
    OBVIOUS
  <2>2. IsFiniteSet(0 .. c[1] - 1) /\ IsFiniteSet(0 .. c[2] - 1)
    BY <2>1, FS_Interval
  <2>3. QED
    BY <2>2, FS_Product
<1>2. f \in Injection(Satellites(c), places)
  <2>1. f \in [Satellites(c) -> places]
    BY DEF Satellites
  <2>2. \A x, y \in Satellites(c) : f[x] = f[y] => x = y
    BY DEF Satellites
  <2> HIDE DEF f
  <2>3. QED
    BY <2>1, <2>2 DEF Injection, IsInjective
<1>3. QED
  BY <1>1, <1>2, FS_Injection

\* Of some satellites at known distances, one is the nearest.
LEMMA SomeAreNearest ==
  ASSUME NEW sats, sats # {}, NEW view, NEW pod,
         \A s \in sats : view.distance[<<pod, s>>] \in Nat /\ view.order[s] \in Nat
  PROVE  Nearest(view, sats, pod) # {}
<1> DEFINE Distance(s) == view.distance[<<pod, s>>]
           Order(s) == view.order[s]
           IsNearer(k, s) == Distance(k) < Distance(s) \/ (Distance(k) = Distance(s) /\ Order(k) < Order(s))
           distances == {Distance(s) : s \in sats}
<1>1. distances # {} /\ distances \subseteq Nat
  OBVIOUS
<1>2. PICK d \in distances : \A e \in distances : d <= e
  <2> HIDE DEF distances
  <2>1. QED
    BY <1>1, LeastNumber
<1>3. \A s \in sats : d <= Distance(s)
  BY <1>2
<1> DEFINE near == {s \in sats : Distance(s) = d}
           orders == {Order(s) : s \in near}
<1>4. orders # {} /\ orders \subseteq Nat
  BY <1>2
<1>5. PICK n \in orders : \A k \in orders : n <= k
  <2> HIDE DEF orders
  <2>1. QED
    BY <1>4, LeastNumber
<1>6. PICK s \in near : \A k \in near : Order(s) <= Order(k)
  BY <1>5
<1>7. s \in sats /\ Distance(s) = d /\ Distance(s) \in Nat
  OBVIOUS
<1>8. ASSUME NEW k \in sats, IsNearer(k, s)
      PROVE  FALSE
  <2>1. Distance(k) \in Nat /\ d <= Distance(k)
    BY <1>3
  <2>2. Distance(k) = d /\ Order(k) < Order(s)
    BY <1>7, <1>8, <2>1
  <2>3. Order(k) \in Nat /\ Order(s) \in Nat
    BY <1>7
  <2>4. k \in near
    BY <2>2
  <2>5. Order(s) <= Order(k)
    BY <1>6, <2>4
  <2>6. QED
    BY <2>2, <2>3, <2>5
<1>9. {k \in sats : IsNearer(k, s)} = {}
  BY <1>8
<1>10. Cardinality({k \in sats : IsNearer(k, s)}) < POD_ATTACH_NEAREST_SATS
  <2>1. PICK K : K = {k \in sats : IsNearer(k, s)}
    OBVIOUS
  <2>2. Cardinality(K) = 0
    BY <1>9, <2>1, FS_EmptySet
  <2>3. Cardinality(K) < POD_ATTACH_NEAREST_SATS
    BY <2>2 DEF POD_ATTACH_NEAREST_SATS
  <2>4. QED
    BY <2>1, <2>3
<1>11. s \in Nearest(view, sats, pod)
  BY <1>7, <1>10 DEF Nearest
<1>12. QED
  BY <1>11

\* What View(size, t) tells of the pods of a simulation.
DistancesAreKnown(t) ==
  \A s \in Satellites(spec.size) :
    /\ \A pod \in Pods : View(spec.size, t).distance[<<pod, s>>] \in Nat
    /\ View(spec.size, t).order[s] \in Nat

LEMMA BuiltGraphHolds ==
  ASSUME NEW t, spec.size \in Nat \X Nat, DistancesAreKnown(t), ~ spec.sight
  PROVE  HoldsTogether(GraphAt(t), Sats, Pods)
<1> DEFINE view == View(spec.size, t)
           isl == {l \in IslLinks(spec.size, Sats) : spec.sight => l \in view.sight}
           gsl == {l \in Sats \X Grounds : l \in view.above}
           own == {l \in Pods \X Sats : l[2] \in Nearest(view, Sats, l[1])}
<1>1. GraphAt(t) = BothWays(isl) \cup BothWays(gsl) \cup BothWays(own)
  BY DEF GraphAt, BuildGraph
<1>2. isl = IslLinks(spec.size, Sats)
  OBVIOUS
<1>3. Sats \subseteq Satellites(spec.size) /\ IsFiniteSet(Sats)
  <2>1. Sats \in SUBSET Satellites(spec.size)
    BY DEF Sats
  <2>2. QED
    BY <2>1, SatellitesAreFinite, FS_Subset
<1>4. ASSUME NEW s \in Sats
      PROVE  Sats \subseteq Reached(GraphAt(t), Sats, s)
  <2>1. PICK C : C = Reached(GraphAt(t), Sats, s)
    OBVIOUS
  <2>2. s \in C /\ IsClosed(GraphAt(t), Sats, C)
    BY <1>3, <2>1, ReachedIsClosed
  <2>3. BothWays(IslLinks(spec.size, Sats)) \subseteq GraphAt(t)
    <3> HIDE DEF isl, gsl, own
    <3>1. QED
      BY <1>1, <1>2
  <2>4. CASE Sats = Satellites(spec.size)
    <3>1. IslLinks(spec.size, Sats) = InPlane(spec.size) \cup AcrossPlanes(spec.size)
      BY <2>4 DEF IslLinks
    <3>2. Satellites(spec.size) \subseteq C
      BY <2>2, <2>3, <2>4, <3>1, GridIsConnected
    <3>3. QED
      BY <2>1, <2>4, <3>2
  <2>5. CASE Sats # Satellites(spec.size)
    <3>1. IslLinks(spec.size, Sats) = RingOf(Sats)
      BY <2>5 DEF IslLinks
    <3>2. Sats \subseteq C
      BY <1>3, <2>2, <2>3, <3>1, RingIsConnected
    <3>3. QED
      BY <2>1, <3>2
  <2>6. QED
    BY <2>4, <2>5
<1>5. ASSUME Sats # {}, NEW pod \in Pods
      PROVE  \E s \in Sats : {<<pod, s>>, <<s, pod>>} \subseteq GraphAt(t)
  <2>1. \A s \in Sats : view.distance[<<pod, s>>] \in Nat /\ view.order[s] \in Nat
    BY <1>3 DEF DistancesAreKnown
  <2>2. Nearest(view, Sats, pod) # {}
    <3> HIDE DEF view
    <3>1. QED
      BY <1>3, <1>5, <2>1, SomeAreNearest
  <2>3. PICK s \in Sats : s \in Nearest(view, Sats, pod)
    BY <2>2 DEF Nearest
  <2>4. <<pod, s>> \in own
    BY <2>3
  <2>5. <<pod, s>> \in BothWays(own) /\ <<s, pod>> \in BothWays(own)
    BY <2>4 DEF BothWays
  <2> HIDE DEF isl, gsl, own
  <2>6. QED
    BY <1>1, <2>5
<1>6. QED
  BY <1>4, <1>5 DEF HoldsTogether

LEMMA DistancesAreGiven ==
  ASSUME PlanInv, phase \in Live, NEW t \in 0 .. Duration
  PROVE  DistancesAreKnown(t)
<1>1. request \in Requests /\ spec.size \in Nat \X Nat
  BY SpecIsTyped DEF PlanInv, SpecTyped
<1> DEFINE AreApart ==
             /\ \A i \in 1 .. spec.pods, s \in Satellites(spec.size) :
                  View(spec.size, t).distance[<< <<"pod", i>>, s>>] \in Nat
             /\ View(spec.size, t).order \in Injection(Satellites(spec.size), Nat)
<1>2. SUFFICES AreApart
  BY DEF DistancesAreKnown, Pods, Injection
<1>3. CASE request.program = "layers" /\ spec = request.spec
  BY <1>1, <1>3, DistancesAssumption
<1>4. CASE /\ request.program \in Commands /\ step \in DOMAIN Plan(request)
           /\ cfg = Chosen(step) /\ spec = Translated(cfg)
  <2>1. step # 0
    BY <1>4, PlanIsSequence
  <2>2. cfg = Overlay(BaseConfig(request), Plan(request)[step])
    BY <1>4, <2>1 DEF Chosen, Base
  <2>3. spec.size = cfg.size /\ spec.pods = cfg.pods
    BY <1>4 DEF Translated
  <2>4. request.program # "layers"
    BY <1>4 DEF Commands
  <2>5. QED
    BY <1>1, <1>4, <2>2, <2>3, <2>4, DistancesAssumption
<1>5. QED
  BY <1>3, <1>4 DEF PlanInv

HoldsInv == runs > 0 /\ ~ spec.sight => HoldsTogether(graph, Sats, Pods)

\* Whatever the shape of the constellation and whichever of its satellites are
\* missing, and however often the graph has been rebuilt: without occlusion the
\* satellites reach each other over their own links, and every pod reaches them.
THEOREM GraphIsConnected == Spec => []GraphHoldsTogether
<1>1. Init => HoldsInv
  BY DEF Init, InitSimulation, HoldsInv
<1>2. HoldsInv /\ PlanInv /\ ClockInv /\ [Next]_vars => HoldsInv'
  <2> SUFFICES ASSUME HoldsInv, PlanInv, ClockInv, [Next]_vars PROVE HoldsInv'
    OBVIOUS
  <2>1. phase \in Live => spec.size \in Nat \X Nat
    BY SpecIsTyped DEF SpecTyped
  <2>2. ASSUME NEW t \in 0 .. Duration, phase \in Live, UNCHANGED spec, graph' = GraphAt(t)
        PROVE  HoldsInv'
    <3>1. ~ spec.sight => HoldsTogether(GraphAt(t), Sats, Pods)
      BY <2>1, <2>2, DistancesAreGiven, BuiltGraphHolds
    <3>2. Sats' = Sats /\ Pods' = Pods
      BY <2>2 DEF Sats, Pods
    <3>3. QED
      BY <2>2, <3>1, <3>2 DEF HoldsInv
  <2>3. CASE UNCHANGED <<spec, runs, graph>>
    <3>1. Sats' = Sats /\ Pods' = Pods
      BY <2>3 DEF Sats, Pods
    <3>2. QED
      BY <2>3, <3>1 DEF HoldsInv
  <2>4. CASE Run
    <3>1. phase \in Live /\ 0 \in 0 .. Duration
      BY <2>4, TimesAssumption DEF Run, Live
    <3>2. CASE runs = 0
      <4>1. graph' = GraphAt(0) /\ UNCHANGED spec
        BY <2>4, <3>2 DEF Run
      <4>2. QED
        BY <2>2, <3>1, <4>1
    <3>3. CASE runs # 0
      <4>1. graph' = graph /\ UNCHANGED spec /\ runs > 0
        BY <2>4, <3>3 DEF Run, ClockInv
      <4>2. Sats' = Sats /\ Pods' = Pods
        BY <4>1 DEF Sats, Pods
      <4>3. QED
        BY <4>1, <4>2 DEF HoldsInv
    <3>4. QED
      BY <3>2, <3>3
  <2>5. ASSUME NEW k \in DOMAIN due, TopologyUpdate(k)
        PROVE  HoldsInv'
    <3>1. phase \in Live /\ now' = due[k] /\ due[k] < Duration
      BY <2>5 DEF TopologyUpdate, Resumes, Live
    <3>2. due[k] \in 0 .. Duration
      BY <3>1, TimesAssumption DEF ClockInv, Dues
    <3>3. graph' = GraphAt(due[k]) /\ UNCHANGED spec
      BY <2>5, <3>1 DEF TopologyUpdate
    <3>4. QED
      BY <2>2, <3>1, <3>2, <3>3
  <2>6. ASSUME NEW s, Construct(s)
        PROVE  HoldsInv'
    BY <2>6 DEF Construct, HoldsInv
  <2>7. CASE Turn
    BY <2>3, <2>5, <2>7 DEF Turn, PhysicsTick, Snapshot, WorkloadTurn, Finish
  <2>8. CASE PacketStep
    BY <2>3, <2>8 DEF PacketStep, Transmit, Deliver, Drop, Compute, PacketUnchanged
  <2>9. QED
    BY <2>3, <2>4, <2>6, <2>7, <2>8, NextParts
<1>3. HoldsInv /\ LinksLeadBothWays => GraphHoldsTogether
  BY DEF HoldsInv, GraphHoldsTogether
<1>4. QED
  BY <1>1, <1>2, <1>3, PlanIsKept, ClockIsKept, GraphIsMutual, PTL DEF Spec
-----------------------------------------------------------------------------
(* The rows of the sweep *)

\* What is enumerated in ascending order is listed that way.
LEMMA ListedIs ==
  ASSUME NEW N \in Nat, NEW f \in [1 .. N -> Nat],
         \A i, j \in 1 .. N : i < j => f[i] < f[j]
  PROVE  Listed({f[i] : i \in 1 .. N}) = [n \in 1 .. N |-> f[n]]
<1> DEFINE S == {f[i] : i \in 1 .. N}
           below(n) == {k \in S : k < f[n]}
<1>1. \A i, j \in 1 .. N : (f[i] < f[j] <=> i < j) /\ (f[i] = f[j] => i = j)
  OBVIOUS
<1>2. Cardinality(S) = N
  <2> DEFINE g == [i \in 1 .. N |-> f[i]]
  <2>1. g \in Bijection(1 .. N, S)
    <3>1. g \in [1 .. N -> S]
      OBVIOUS
    <3>2. \A i, j \in 1 .. N : g[i] = g[j] => i = j
      BY <1>1
    <3>3. \A s \in S : \E i \in 1 .. N : g[i] = s
      OBVIOUS
    <3> HIDE DEF g, S
    <3>4. QED
      BY <3>1, <3>2, <3>3, Fun_IsBij
  <2> HIDE DEF g, S
  <2>2. IsFiniteSet(1 .. N) /\ Cardinality(1 .. N) = N
    BY FS_Interval
  <2>3. ExistsBijection(1 .. N, S)
    BY <2>1, Fun_ExistsBij
  <2>4. QED
    BY <2>2, <2>3, FS_Bijection
<1>3. ASSUME NEW n \in 1 .. N
      PROVE  Cardinality(below(n)) = n - 1
  <2> DEFINE g == [i \in 1 .. n - 1 |-> f[i]]
             T == below(n)
  <2>1. g \in Bijection(1 .. n - 1, T)
    <3>1. g \in [1 .. n - 1 -> T]
      BY <1>1
    <3>2. \A i, j \in 1 .. n - 1 : g[i] = g[j] => i = j
      BY <1>1
    <3>3. \A s \in T : \E i \in 1 .. n - 1 : g[i] = s
      BY <1>1
    <3> HIDE DEF g, T
    <3>4. QED
      BY <3>1, <3>2, <3>3, Fun_IsBij
  <2> HIDE DEF g, T
  <2>2. IsFiniteSet(1 .. n - 1) /\ Cardinality(1 .. n - 1) = n - 1
    <3>1. PICK m \in Nat : m = n - 1
      OBVIOUS
    <3>2. IsFiniteSet(1 .. m) /\ Cardinality(1 .. m) = m
      BY FS_Interval
    <3>3. QED
      BY <3>1, <3>2
  <2>3. ExistsBijection(1 .. n - 1, T)
    BY <2>1, Fun_ExistsBij
  <2>4. Cardinality(T) = n - 1
    BY <2>2, <2>3, FS_Bijection
  <2>5. QED
    BY <2>4 DEF T
<1>4. ASSUME NEW n \in 1 .. N
      PROVE  (CHOOSE j \in S : Cardinality({k \in S : k < j}) = n - 1) = f[n]
  <2>1. f[n] \in S /\ Cardinality({k \in S : k < f[n]}) = n - 1
    BY <1>3
  <2>2. ASSUME NEW j \in S, Cardinality({k \in S : k < j}) = n - 1
        PROVE  j = f[n]
    <3>1. PICK i \in 1 .. N : j = f[i]
      OBVIOUS
    <3>2. Cardinality({k \in S : k < j}) = i - 1
      BY <1>3, <3>1
    <3>3. i = n
      BY <2>2, <3>2
    <3>4. QED
      BY <3>1, <3>3
  <2> HIDE DEF S
  <2>3. QED
    BY <2>1, <2>2
<1> HIDE DEF S
<1>5. Listed(S) = [n \in 1 .. N |-> CHOOSE j \in S : Cardinality({k \in S : k < j}) = n - 1]
  BY <1>2 DEF Listed
<1>6. QED
  BY <1>4, <1>5 DEF S

\* Blocks of the same length, one after the other.
LEMMA BlocksAreOrdered ==
  ASSUME NEW c \in Nat, NEW a \in Nat, NEW b \in Nat, a >= 1, b >= 1,
         NEW i \in 1 .. c, NEW j \in 1 .. c, a < b
  PROVE  (a - 1) * c + i < (b - 1) * c + j
<1>1. a - 1 \in Nat /\ b - 1 \in Nat /\ a - 1 < b - 1
  OBVIOUS
<1>2. (a - 1) * c + c <= (b - 1) * c
  BY <1>1, ProductsAreOrdered
<1>3. PICK x \in Nat, y \in Nat : x = (a - 1) * c /\ y = (b - 1) * c
  BY <1>1
<1>4. QED
  BY <1>2, <1>3

LEMMA BlocksCover ==
  ASSUME NEW c \in Nat, NEW n \in Nat, NEW k \in 1 .. n * c
  PROVE  \E b \in 1 .. n, i \in 1 .. c : k = (b - 1) * c + i
<1> DEFINE T == {b \in Nat : k <= b * c}
<1>1. n * c \in Nat /\ k \in Nat /\ k >= 1 /\ k <= n * c
  OBVIOUS
<1>2. n \in T /\ T \subseteq Nat
  BY <1>1
<1>3. PICK b \in T : \A a \in T : b <= a
  <2> HIDE DEF T
  <2>1. QED
    BY <1>2, LeastNumber
<1>4. b \in Nat /\ k <= b * c /\ b <= n
  BY <1>2, <1>3
<1>5. b # 0
  BY <1>1, <1>4
<1>6. b - 1 \in Nat /\ b - 1 \notin T
  BY <1>3, <1>4, <1>5
<1>7. PICK x \in Nat : x = (b - 1) * c
  BY <1>6
<1>8. b * c = x + c
  BY <1>4, <1>7
<1>9. x < k /\ k <= x + c
  BY <1>1, <1>4, <1>6, <1>7, <1>8
<1>10. k - x \in 1 .. c /\ k = x + (k - x)
  BY <1>1, <1>9
<1>11. QED
  BY <1>4, <1>5, <1>7, <1>10

Spot(c, b, i) == (b - 1) * c + i

LEMMA BlocksAreDistinct ==
  ASSUME NEW c \in Nat, NEW a \in Nat, NEW b \in Nat, a >= 1, b >= 1,
         NEW i \in 1 .. c, NEW j \in 1 .. c, Spot(c, a, i) = Spot(c, b, j)
  PROVE  a = b /\ i = j
<1>1. (a - 1) * c + i = (b - 1) * c + j
  BY DEF Spot
<1>9. PICK x \in Nat, y \in Nat : x = (a - 1) * c + i /\ y = (b - 1) * c + j
  <2>1. a - 1 \in Nat /\ b - 1 \in Nat
    OBVIOUS
  <2>2. (a - 1) * c \in Nat /\ (b - 1) * c \in Nat
    BY <2>1
  <2>3. QED
    BY <2>2
<1>2. ~ (a < b) /\ ~ (b < a)
  BY <1>1, <1>9, BlocksAreOrdered
<1>3. a = b
  BY <1>2
<1>4. PICK z \in Nat : z = (a - 1) * c
  <2>1. a - 1 \in Nat
    OBVIOUS
  <2>2. QED
    BY <2>1
<1>5. z + i = z + j
  BY <1>1, <1>3, <1>4
<1>6. QED
  BY <1>3, <1>5

\* The configuration of the b-th block of tasks.
ConfigAt(b) ==
  LET at == CHOOSE p \in (DOMAIN Scales) \X (DOMAIN Modes) : b = (p[1] - 1) * Len(Modes) + p[2]
  IN  [size |-> Scales[at[1]], mode |-> Modes[at[2]]]

Blocks == Len(Scales) * Len(Modes)

LEMMA ListsAre ==
  /\ Len(Scales) \in Nat /\ DOMAIN Scales = 1 .. Len(Scales)
  /\ Len(Modes) \in Nat /\ DOMAIN Modes = 1 .. Len(Modes)
  /\ Len(Seeds) \in Nat /\ DOMAIN Seeds = 1 .. Len(Seeds)
  /\ Blocks \in Nat
<1>1. /\ Len(Scales) \in Nat /\ DOMAIN Scales = 1 .. Len(Scales)
      /\ Len(Modes) \in Nat /\ DOMAIN Modes = 1 .. Len(Modes)
      /\ Len(Seeds) \in Nat /\ DOMAIN Seeds = 1 .. Len(Seeds)
  BY ScalesAssumption, ListsAssumption, LenProperties
<1>2. QED
  BY <1>1 DEF Blocks

LEMMA BlockIs ==
  ASSUME NEW i \in DOMAIN Scales, NEW m \in DOMAIN Modes
  PROVE  /\ (i - 1) * Len(Modes) + m \in 1 .. Blocks
         /\ ConfigAt((i - 1) * Len(Modes) + m) = [size |-> Scales[i], mode |-> Modes[m]]
<1> DEFINE M == Len(Modes)
           L == Len(Scales)
           b == (i - 1) * M + m
           At(p) == b = (p[1] - 1) * M + p[2]
           P == (DOMAIN Scales) \X (DOMAIN Modes)
<1>1. L \in Nat /\ DOMAIN Scales = 1 .. L /\ M \in Nat /\ DOMAIN Modes = 1 .. M
  BY ListsAre
<1>2. i \in 1 .. L /\ m \in 1 .. M
  BY <1>1
<1>3. \A p \in P : At(p) => p = <<i, m>>
  <2> SUFFICES ASSUME NEW p \in P, At(p) PROVE p = <<i, m>>
    OBVIOUS
  <2>1. PICK j \in 1 .. L, n \in 1 .. M : p = <<j, n>>
    BY <1>1
  <2>2. (i - 1) * M + m = (j - 1) * M + n
    BY <2>1
  <2>3. j \in Nat /\ j >= 1 /\ i \in Nat /\ i >= 1
    BY <1>1
  <2> HIDE DEF M
  <2>4. i = j /\ m = n
    <3>1. Spot(M, i, m) = Spot(M, j, n)
      BY <2>2 DEF Spot
    <3>2. QED
      BY <1>1, <1>2, <2>3, <3>1, BlocksAreDistinct
  <2>5. QED
    BY <2>1, <2>4
<1>4. <<i, m>> \in P /\ At(<<i, m>>)
  OBVIOUS
<1>5. (CHOOSE p \in P : At(p)) = <<i, m>>
  <2> HIDE DEF At, P
  <2>1. QED
    BY <1>3, <1>4
<1>6. ConfigAt(b) = [size |-> Scales[i], mode |-> Modes[m]]
  <2>1. PICK q : q = CHOOSE p \in P : At(p)
    OBVIOUS
  <2>2. ConfigAt(b) = [size |-> Scales[q[1]], mode |-> Modes[q[2]]]
    BY <2>1, Zenon DEF ConfigAt
  <2>3. q = <<i, m>>
    BY <1>5, <2>1, Zenon
  <2> HIDE DEF b, At, P
  <2>4. QED
    BY <2>2, <2>3
<1>7. b \in 1 .. Blocks
  <2> HIDE DEF M, L
  <2>1. i - 1 \in Nat /\ i - 1 < L
    BY <1>1, <1>2
  <2>2. (i - 1) * M + M <= L * M /\ (i - 1) * M \in Nat /\ L * M \in Nat
    BY <1>1, <2>1, ProductsAreOrdered
  <2>3. PICK x \in Nat, y \in Nat : x = (i - 1) * M /\ y = L * M
    BY <2>2
  <2>4. x + m \in 1 .. y
    BY <1>1, <1>2, <2>2, <2>3
  <2>5. b = x + m /\ Blocks = y
    BY <2>3 DEF Blocks, L, M
  <2>6. QED
    BY <2>4, <2>5
<1>8. QED
  BY <1>6, <1>7

\* Each block has a configuration of its own.
LEMMA BlocksDiffer ==
  ASSUME NEW a \in 1 .. Blocks
  PROVE  /\ \E i \in DOMAIN Scales, m \in DOMAIN Modes : a = (i - 1) * Len(Modes) + m
         /\ \A b \in 1 .. Blocks :
              ConfigAt(a).size = ConfigAt(b).size /\ ConfigAt(a).mode = ConfigAt(b).mode => a = b
<1>1. \A b \in 1 .. Blocks :
        \E i \in DOMAIN Scales, m \in DOMAIN Modes : b = (i - 1) * Len(Modes) + m
  <2> SUFFICES ASSUME NEW b \in 1 .. Blocks
               PROVE  \E i \in DOMAIN Scales, m \in DOMAIN Modes : b = (i - 1) * Len(Modes) + m
    OBVIOUS
  <2>1. b \in 1 .. Len(Scales) * Len(Modes)
    BY DEF Blocks
  <2>2. \E i \in 1 .. Len(Scales), m \in 1 .. Len(Modes) : b = (i - 1) * Len(Modes) + m
    BY <2>1, ListsAre, BlocksCover
  <2>3. QED
    BY <2>2, ListsAre
<1>2. ASSUME NEW b \in 1 .. Blocks,
             ConfigAt(a).size = ConfigAt(b).size, ConfigAt(a).mode = ConfigAt(b).mode
      PROVE  a = b
  <2>1. PICK i \in DOMAIN Scales, m \in DOMAIN Modes : a = (i - 1) * Len(Modes) + m
    BY <1>1
  <2>2. PICK j \in DOMAIN Scales, n \in DOMAIN Modes : b = (j - 1) * Len(Modes) + n
    BY <1>1
  <2>3. ConfigAt(a) = [size |-> Scales[i], mode |-> Modes[m]]
        /\ ConfigAt(b) = [size |-> Scales[j], mode |-> Modes[n]]
    BY <2>1, <2>2, BlockIs
  <2>4. Scales[i] = Scales[j] /\ Modes[m] = Modes[n]
    BY <1>2, <2>3
  <2>5. i = j /\ m = n
    BY <2>4, ListsAssumption
  <2>6. QED
    BY <2>1, <2>2, <2>5
<1>3. QED
  BY <1>1, <1>2

TaskOf(b, r) == [size |-> ConfigAt(b).size, mode |-> ConfigAt(b).mode, seed |-> Seeds[r]]

\* The tasks, block by block.
LEMMA TasksAre ==
  /\ DOMAIN Tasks = 1 .. Blocks * Len(Seeds)
  /\ \A b \in 1 .. Blocks, r \in 1 .. Len(Seeds) : Tasks[(b - 1) * Len(Seeds) + r] = TaskOf(b, r)
<1> DEFINE L == Len(Scales)
           M == Len(Modes)
           R == Len(Seeds)
           task(i, m, r) == [size |-> Scales[i], mode |-> Modes[m], seed |-> Seeds[r]]
           S == {task(i, m, r) : i \in DOMAIN Scales, m \in DOMAIN Modes, r \in DOMAIN Seeds}
           seeded(i, m) == [r \in DOMAIN Seeds |-> task(i, m, r)]
           modes(i) == [m \in DOMAIN Modes |-> seeded(i, m)]
           sizes == [i \in DOMAIN Scales |-> FlattenSeq(modes(i))]
<1>1. /\ L \in Nat /\ DOMAIN Scales = 1 .. L /\ M \in Nat /\ DOMAIN Modes = 1 .. M
      /\ R \in Nat /\ DOMAIN Seeds = 1 .. R
  BY ListsAre
<1>2. Tasks = FlattenSeq(sizes)
  BY DEF Tasks
<1>3. \A i \in 1 .. L, m \in 1 .. M, r \in 1 .. R : task(i, m, r) \in S
  BY <1>1
<1> HIDE DEF L, M, R, S, task
<1>4. \A i \in 1 .. L, m \in 1 .. M : seeded(i, m) \in Seq(S) /\ Len(seeded(i, m)) = R
  <2> SUFFICES ASSUME NEW i \in 1 .. L, NEW m \in 1 .. M
               PROVE  seeded(i, m) \in Seq(S) /\ Len(seeded(i, m)) = R
    OBVIOUS
  <2>1. seeded(i, m) = [r \in 1 .. R |-> task(i, m, r)]
    BY <1>1
  <2>2. QED
    BY <1>1, <1>3, <2>1, IsASeq
<1>5. ASSUME NEW i \in 1 .. L
      PROVE  /\ FlattenSeq(modes(i)) \in Seq(S) /\ Len(FlattenSeq(modes(i))) = M * R
             /\ \A m \in 1 .. M, r \in 1 .. R : FlattenSeq(modes(i))[(m - 1) * R + r] = task(i, m, r)
  <2>1. modes(i) \in Seq(Seq(S)) /\ Len(modes(i)) = M /\ DOMAIN modes(i) = 1 .. M
    <3>1. modes(i) = [m \in 1 .. M |-> seeded(i, m)]
      BY <1>1
    <3> HIDE DEF seeded, modes
    <3>2. QED
      BY <1>1, <1>4, <3>1, IsASeq
  <2>2. \A m \in DOMAIN modes(i) : Len(modes(i)[m]) = R
    BY <1>1, <1>4, <2>1
  <2>3. \A m \in 1 .. M, r \in 1 .. R : modes(i)[m][r] = task(i, m, r)
    BY <1>1
  <2> HIDE DEF modes
  <2>4. /\ FlattenSeq(modes(i)) \in Seq(S) /\ Len(FlattenSeq(modes(i))) = Len(modes(i)) * R
        /\ \A m \in DOMAIN modes(i), r \in 1 .. R :
             FlattenSeq(modes(i))[(m - 1) * R + r] = modes(i)[m][r]
    BY <1>1, <2>1, <2>2, FlattenBlocks
  <2>5. QED
    BY <2>1, <2>3, <2>4
<1> HIDE DEF modes, seeded
<1>6. sizes \in Seq(Seq(S)) /\ Len(sizes) = L /\ DOMAIN sizes = 1 .. L
  <2>1. sizes = [i \in 1 .. L |-> FlattenSeq(modes(i))]
    BY <1>1
  <2> HIDE DEF sizes
  <2>2. QED
    BY <1>1, <1>5, <2>1, IsASeq
<1>7. M * R \in Nat /\ \A i \in DOMAIN sizes : Len(sizes[i]) = M * R
  BY <1>1, <1>5, <1>6
<1>8. \A i \in 1 .. L : sizes[i] = FlattenSeq(modes(i))
  BY <1>1
<1> HIDE DEF sizes
<1>9. PICK c \in Nat : c = M * R
  BY <1>7
<1>10. /\ Tasks \in Seq(S) /\ Len(Tasks) = Len(sizes) * c
       /\ \A i \in DOMAIN sizes, j \in 1 .. c : Tasks[(i - 1) * c + j] = sizes[i][j]
  <2>1. \A i \in DOMAIN sizes : Len(sizes[i]) = c
    BY <1>7, <1>9
  <2>2. sizes \in Seq(Seq(S))
    BY <1>6
  <2>3. /\ FlattenSeq(sizes) \in Seq(S) /\ Len(FlattenSeq(sizes)) = Len(sizes) * c
        /\ \A i \in DOMAIN sizes, j \in 1 .. c : FlattenSeq(sizes)[(i - 1) * c + j] = sizes[i][j]
    BY <2>1, <2>2, FlattenBlocks
  <2>4. QED
    BY <1>2, <2>3
<1>11. DOMAIN Tasks = 1 .. Blocks * R
  <2>1. Len(Tasks) = Blocks * R
    <3>1. L * c = (L * M) * R
      BY <1>1, <1>9
    <3>2. QED
      BY <1>6, <1>10, <3>1 DEF Blocks, L, M
  <2>2. QED
    BY <1>10, <2>1, LenProperties
<1>12. ASSUME NEW b \in 1 .. Blocks, NEW r \in 1 .. R
       PROVE  Tasks[(b - 1) * R + r] = TaskOf(b, r)
  <2>1. PICK i \in 1 .. L, m \in 1 .. M : b = (i - 1) * M + m
    BY <1>1, BlocksDiffer DEF M
  <2>2. ConfigAt(b) = [size |-> Scales[i], mode |-> Modes[m]]
    BY <1>1, <2>1, BlockIs DEF M
  <2>3. TaskOf(b, r) = task(i, m, r)
    BY <2>2 DEF TaskOf, task
  <2>4. (m - 1) * R + r \in 1 .. c
    <3>1. m - 1 \in Nat /\ m - 1 < M
      BY <1>1
    <3>2. (m - 1) * R + R <= M * R /\ (m - 1) * R \in Nat
      BY <1>1, <3>1, ProductsAreOrdered
    <3>3. PICK x \in Nat : x = (m - 1) * R
      BY <3>2
    <3>4. QED
      BY <1>1, <1>9, <3>2, <3>3
  <2>5. Tasks[(i - 1) * c + ((m - 1) * R + r)] = sizes[i][(m - 1) * R + r]
    BY <1>6, <1>10, <2>4
  <2>6. sizes[i][(m - 1) * R + r] = task(i, m, r)
    BY <1>5, <1>8
  <2>7. (b - 1) * R + r = (i - 1) * c + ((m - 1) * R + r)
    <3>1. (i - 1) * c = (i - 1) * M * R
      BY <1>1, <1>9
    <3>2. PICK x \in Int : x = (i - 1) * M
      BY <1>1
    <3>3. (i - 1) * c = x * R /\ b = x + m
      BY <2>1, <3>1, <3>2
    <3>4. (x + m - 1) * R = x * R + (m - 1) * R
      BY <1>1
    <3>5. QED
      BY <1>1, <3>3, <3>4
  <2>8. QED
    BY <2>3, <2>5, <2>6, <2>7
<1>13. QED
  BY <1>11, <1>12 DEF R

IndexOf(b, r) == (b - 1) * Len(Seeds) + r

LEMMA IndicesAre ==
  /\ \A b \in 1 .. Blocks, r \in 1 .. Len(Seeds) :
       /\ IndexOf(b, r) \in Nat /\ IndexOf(b, r) \in DOMAIN Tasks
       /\ Tasks[IndexOf(b, r)] = TaskOf(b, r)
  /\ \A j \in DOMAIN Tasks : \E b \in 1 .. Blocks, r \in 1 .. Len(Seeds) : j = IndexOf(b, r)
  /\ \A a, b \in 1 .. Blocks, i, j \in 1 .. Len(Seeds) :
       /\ a < b => IndexOf(a, i) < IndexOf(b, j)
       /\ i < j => IndexOf(a, i) < IndexOf(a, j)
       /\ IndexOf(a, i) = IndexOf(b, j) => a = b /\ i = j
<1> DEFINE R == Len(Seeds)
<1>1. R \in Nat /\ Blocks \in Nat
  BY ListsAre
<1>2. DOMAIN Tasks = 1 .. Blocks * R
  BY TasksAre
<1> HIDE DEF R
<1>3. ASSUME NEW b \in 1 .. Blocks, NEW r \in 1 .. R
      PROVE  (b - 1) * R + r \in Nat /\ (b - 1) * R + r \in DOMAIN Tasks
  <2>1. b - 1 \in Nat /\ b - 1 < Blocks
    BY <1>1
  <2>2. (b - 1) * R + R <= Blocks * R /\ (b - 1) * R \in Nat /\ Blocks * R \in Nat
    BY <1>1, <2>1, ProductsAreOrdered
  <2>3. PICK x \in Nat, y \in Nat : x = (b - 1) * R /\ y = Blocks * R
    BY <2>2
  <2>4. QED
    BY <1>1, <1>2, <2>2, <2>3
<1>4. ASSUME NEW j \in DOMAIN Tasks
      PROVE  \E b \in 1 .. Blocks, r \in 1 .. R : j = (b - 1) * R + r
  <2>1. j \in 1 .. Blocks * R
    BY <1>2
  <2>2. QED
    BY <1>1, <2>1, BlocksCover
<1>5. ASSUME NEW a \in 1 .. Blocks, NEW b \in 1 .. Blocks, NEW i \in 1 .. R, NEW j \in 1 .. R
      PROVE  /\ a < b => (a - 1) * R + i < (b - 1) * R + j
             /\ i < j => (a - 1) * R + i < (a - 1) * R + j
             /\ (a - 1) * R + i = (b - 1) * R + j => a = b /\ i = j
  <2>1. a \in Nat /\ a >= 1 /\ b \in Nat /\ b >= 1
    BY <1>1
  <2>2. a < b => (a - 1) * R + i < (b - 1) * R + j
    BY <1>1, <2>1, BlocksAreOrdered
  <2>3. (a - 1) * R + i = (b - 1) * R + j => a = b /\ i = j
    BY <1>1, <2>1, BlocksAreDistinct DEF Spot
  <2>4. i < j => (a - 1) * R + i < (a - 1) * R + j
    <3>1. a - 1 \in Nat
      BY <2>1
    <3>2. PICK x \in Nat : x = (a - 1) * R
      BY <1>1, <3>1
    <3>3. QED
      BY <1>1, <3>2
  <2>5. QED
    BY <2>2, <2>3, <2>4
<1>6. \A b, r : IndexOf(b, r) = (b - 1) * R + r
  BY DEF IndexOf, R
<1>7. \A b \in 1 .. Blocks, r \in 1 .. R : Tasks[IndexOf(b, r)] = TaskOf(b, r)
  BY TasksAre DEF IndexOf, R
<1>8. \A b \in 1 .. Blocks, r \in 1 .. R :
        /\ IndexOf(b, r) \in Nat /\ IndexOf(b, r) \in DOMAIN Tasks
        /\ Tasks[IndexOf(b, r)] = TaskOf(b, r)
  BY <1>3, <1>6, <1>7
<1>9. \A j \in DOMAIN Tasks : \E b \in 1 .. Blocks, r \in 1 .. R : j = IndexOf(b, r)
  BY <1>4, <1>6
<1>10. \A a, b \in 1 .. Blocks, i, j \in 1 .. R :
         /\ a < b => IndexOf(a, i) < IndexOf(b, j)
         /\ i < j => IndexOf(a, i) < IndexOf(a, j)
         /\ IndexOf(a, i) = IndexOf(b, j) => a = b /\ i = j
  BY <1>5, <1>6
<1>11. QED
  BY <1>8, <1>9, <1>10 DEF R

LEMMA GroupIs ==
  ASSUME NEW b \in 1 .. Blocks, NEW r \in 1 .. Len(Seeds)
  PROVE  Group(IndexOf(b, r)) = [n \in 1 .. Len(Seeds) |-> IndexOf(b, n)]
<1> DEFINE R == Len(Seeds)
           j == IndexOf(b, r)
           G == {k \in DOMAIN Tasks : Tasks[k].size = Tasks[j].size /\ Tasks[k].mode = Tasks[j].mode}
           f == [n \in 1 .. R |-> IndexOf(b, n)]
<1>1. R \in Nat
  BY ListsAre
<1>2. G = {f[n] : n \in 1 .. R}
  <2>1. ASSUME NEW k \in G
        PROVE  \E n \in 1 .. R : k = f[n]
    <3>1. PICK a \in 1 .. Blocks, n \in 1 .. R : k = IndexOf(a, n)
      BY IndicesAre
    <3>2. Tasks[k] = TaskOf(a, n) /\ Tasks[j] = TaskOf(b, r)
      BY <3>1, IndicesAre
    <3>3. ConfigAt(a).size = ConfigAt(b).size /\ ConfigAt(a).mode = ConfigAt(b).mode
      BY <3>2 DEF TaskOf
    <3>4. a = b
      BY <3>3, BlocksDiffer
    <3>5. QED
      BY <3>1, <3>4
  <2>2. ASSUME NEW n \in 1 .. R
        PROVE  f[n] \in G
    <3>1. f[n] = IndexOf(b, n) /\ f[n] \in DOMAIN Tasks
      BY IndicesAre
    <3>2. Tasks[IndexOf(b, n)] = TaskOf(b, n) /\ Tasks[IndexOf(b, r)] = TaskOf(b, r)
      BY IndicesAre
    <3>3. QED
      BY <3>1, <3>2 DEF TaskOf
  <2> HIDE DEF G, f
  <2>3. QED
    BY <2>1, <2>2
<1>3. f \in [1 .. R -> Nat] /\ \A m, n \in 1 .. R : m < n => f[m] < f[n]
  BY IndicesAre
<1>4. Group(j) = Listed(G)
  BY DEF Group
<1>5. \A n \in 1 .. R : f[n] = IndexOf(b, n)
  OBVIOUS
<1> HIDE DEF G, f, R, j
<1>6. Listed(G) = [n \in 1 .. R |-> f[n]]
  BY <1>1, <1>2, <1>3, ListedIs
<1>7. QED
  BY <1>4, <1>5, <1>6 DEF R, j

LEMMA LeadersAre ==
  ASSUME Len(Seeds) > 0
  PROVE  Listed({j \in DOMAIN Tasks : Group(j)[1] = j}) = [b \in 1 .. Blocks |-> IndexOf(b, 1)]
<1> DEFINE G == {j \in DOMAIN Tasks : Group(j)[1] = j}
           f == [b \in 1 .. Blocks |-> IndexOf(b, 1)]
<1>1. Blocks \in Nat /\ 1 \in 1 .. Len(Seeds)
  BY ListsAre
<1>2. G = {f[b] : b \in 1 .. Blocks}
  <2>1. ASSUME NEW k \in G
        PROVE  \E b \in 1 .. Blocks : k = f[b]
    <3>1. PICK a \in 1 .. Blocks, n \in 1 .. Len(Seeds) : k = IndexOf(a, n)
      BY IndicesAre
    <3>2. Group(k)[1] = IndexOf(a, 1)
      BY <1>1, <3>1, GroupIs
    <3>3. QED
      BY <3>2
  <2>2. ASSUME NEW b \in 1 .. Blocks
        PROVE  f[b] \in G
    <3>1. f[b] = IndexOf(b, 1) /\ f[b] \in DOMAIN Tasks
      BY <1>1, IndicesAre
    <3>2. Group(IndexOf(b, 1))[1] = IndexOf(b, 1)
      BY <1>1, GroupIs
    <3>3. QED
      BY <3>1, <3>2
  <2> HIDE DEF G, f
  <2>3. QED
    BY <2>1, <2>2
<1>3. f \in [1 .. Blocks -> Nat] /\ \A a, b \in 1 .. Blocks : a < b => f[a] < f[b]
  BY <1>1, IndicesAre
<1>4. \A b \in 1 .. Blocks : f[b] = IndexOf(b, 1)
  OBVIOUS
<1> HIDE DEF G, f
<1>5. Listed(G) = [b \in 1 .. Blocks |-> f[b]]
  BY <1>1, <1>2, <1>3, ListedIs
<1>6. QED
  BY <1>4, <1>5 DEF G

LEMMA ResultIs ==
  ASSUME NEW task, task.mode \in {"disabled", "thermal_only", "full_physics"}
  PROVE  /\ RunTask(task).seed = task.seed
         /\ RunTask(task).spec.size = task.size
         /\ RunTask(task).spec.models =
              CASE task.mode = "disabled" -> {}
                [] task.mode = "thermal_only" -> {"thermal"}
                [] task.mode = "full_physics" -> {"thermal", "radiation", "power"}
<1> DEFINE c == Overlay(DefaultConfig, [size |-> task.size])
           d == WithPhysicsMode(c, task.mode)
<1>1. {"size", "physics", "metrics"} \subseteq DOMAIN DefaultConfig /\ DefaultConfig.physics = {}
  BY DefaultsAssumption DEF ConfigFields
<1>2. /\ c.size = task.size /\ c.physics = {} /\ {"size", "physics", "metrics"} \subseteq DOMAIN c
      /\ c = [f \in DOMAIN c |-> c[f]]
  BY <1>1 DEF Overlay
<1>3. RunTask(task).seed = task.seed /\ RunTask(task).spec = Translated(d)
  BY DEF RunTask, RunConfig, TaskConfig
<1> HIDE DEF c
<1>4. CASE task.mode = "disabled"
  <2>1. d = c
    BY <1>4 DEF WithPhysicsMode
  <2>2. QED
    BY <1>2, <1>3, <1>4, <2>1 DEF Translated
<1>5. CASE task.mode = "thermal_only"
  <2>1. d.size = task.size /\ d.physics = {"thermal"}
    BY <1>2, <1>5 DEF WithPhysicsMode
  <2>2. QED
    BY <1>3, <1>5, <2>1 DEF Translated
<1>6. CASE task.mode = "full_physics"
  <2>1. d.size = task.size /\ d.physics = {"thermal", "radiation", "power"}
    BY <1>2, <1>6 DEF WithPhysicsMode, SwitchedOn
  <2>2. QED
    BY <1>3, <1>6, <2>1 DEF Translated
<1>7. QED
  BY <1>4, <1>5, <1>6

LEMMA RowIs ==
  ASSUME NEW b \in 1 .. Blocks, NEW row,
         row = [size |-> ConfigAt(b).size, mode |-> ConfigAt(b).mode,
                runs |-> [n \in 1 .. Len(Seeds) |-> RunTask(TaskOf(b, n))]]
  PROVE  IsRowOf(row, ConfigAt(b).size, ConfigAt(b).mode)
<1>1. ConfigAt(b).mode \in {"disabled", "thermal_only", "full_physics"}
  <2>1. PICK i \in DOMAIN Scales, m \in DOMAIN Modes : b = (i - 1) * Len(Modes) + m
    BY BlocksDiffer
  <2>2. ConfigAt(b) = [size |-> Scales[i], mode |-> Modes[m]]
    BY <2>1, BlockIs
  <2>3. Modes[m] \in {"disabled", "thermal_only", "full_physics"}
    BY ListsAssumption, ElementOfSeq, ListsAre
  <2>4. QED
    BY <2>2, <2>3
<1> DEFINE mode == ConfigAt(b).mode
           size == ConfigAt(b).size
           models == CASE mode = "disabled" -> {}
                       [] mode = "thermal_only" -> {"thermal"}
                       [] mode = "full_physics" -> {"thermal", "radiation", "power"}
<1>2. row.size = size /\ row.mode = mode /\ DOMAIN row.runs = 1 .. Len(Seeds)
  OBVIOUS
<1>3. ASSUME NEW n \in 1 .. Len(Seeds)
      PROVE  /\ row.runs[n].seed = Seeds[n]
             /\ row.runs[n].spec.size = size /\ row.runs[n].spec.models = models
  <2>1. row.runs[n] = RunTask(TaskOf(b, n))
    OBVIOUS
  <2>2. TaskOf(b, n).size = size /\ TaskOf(b, n).mode = mode /\ TaskOf(b, n).seed = Seeds[n]
    BY DEF TaskOf
  <2>3. PICK t : t = TaskOf(b, n)
    OBVIOUS
  <2>4. t.mode \in {"disabled", "thermal_only", "full_physics"}
    BY <1>1, <2>2, <2>3
  <2>5. /\ RunTask(t).seed = t.seed /\ RunTask(t).spec.size = t.size
        /\ RunTask(t).spec.models = CASE t.mode = "disabled" -> {}
                                      [] t.mode = "thermal_only" -> {"thermal"}
                                      [] t.mode = "full_physics" -> {"thermal", "radiation", "power"}
    BY <2>4, ResultIs
  <2>6. RunTask(t).spec.models = models
    BY <2>2, <2>3, <2>5, Zenon
  <2>7. QED
    BY <2>1, <2>2, <2>3, <2>5, <2>6
<1>4. [n \in DOMAIN row.runs |-> row.runs[n].seed] = Seeds
  <2>1. Seeds = [n \in 1 .. Len(Seeds) |-> Seeds[n]]
    BY ListsAssumption, LenProperties
  <2>2. QED
    BY <1>2, <1>3, <2>1
<1> HIDE DEF models
<1>5. \A n \in DOMAIN row.runs : row.runs[n].spec.size = size /\ row.runs[n].spec.models = models
  BY <1>2, <1>3
<1>6. QED
  BY <1>2, <1>4, <1>5, Zenon DEF IsRowOf, models

LEMMA RowsAreMade ==
  ASSUME AggregateRows, ResultsAreInPlace, DOMAIN perTask = DOMAIN Tasks, rows' # <<>>
  PROVE  /\ Len(rows') = Len(Scales) * Len(Modes)
         /\ \A i \in DOMAIN Scales, m \in DOMAIN Modes :
              IsRowOf(rows'[(i - 1) * Len(Modes) + m], Scales[i], Modes[m])
<1> DEFINE R == Len(Seeds)
           leaders == Listed({j \in DOMAIN Tasks : Group(j)[1] = j})
           Row(l) == [size |-> Tasks[l].size, mode |-> Tasks[l].mode,
                      runs |-> [n \in DOMAIN Group(l) |-> perTask[Group(l)[n]]]]
<1>1. R \in Nat /\ Blocks \in Nat
  BY ListsAre
<1>2. rows' = [k \in DOMAIN leaders |-> Row(leaders[k])]
  BY DEF AggregateRows
<1>3. R > 0
  <2> SUFFICES ASSUME R = 0 PROVE FALSE
    BY <1>1
  <2>1. DOMAIN Tasks = {}
    <3>1. Blocks * R = 0
      BY <1>1
    <3>2. DOMAIN Tasks = 1 .. 0
      BY <3>1, TasksAre
    <3>3. QED
      BY <3>2
  <2>2. {j \in DOMAIN Tasks : Group(j)[1] = j} = {}
    BY <2>1
  <2>3. leaders = <<>>
    <3>1. PICK K : K = {j \in DOMAIN Tasks : Group(j)[1] = j}
      OBVIOUS
    <3>2. Cardinality(K) = 0
      BY <2>2, <3>1, FS_EmptySet
    <3>3. DOMAIN Listed(K) = 1 .. 0
      BY <3>2 DEF Listed
    <3>4. DOMAIN leaders = {}
      BY <3>1, <3>3
    <3>5. QED
      BY <3>4 DEF Listed
  <2>4. QED
    BY <1>2, <2>3
<1>4. leaders = [b \in 1 .. Blocks |-> IndexOf(b, 1)]
  BY <1>3, LeadersAre
<1>5. \A j \in DOMAIN Tasks : perTask[j] = RunTask(Tasks[j])
  BY DEF AggregateRows, ResultsAreInPlace
<1>6. ASSUME NEW b \in 1 .. Blocks
      PROVE  IsRowOf(rows'[b], ConfigAt(b).size, ConfigAt(b).mode)
  <2> DEFINE l == IndexOf(b, 1)
  <2>1. 1 \in 1 .. R
    BY <1>1, <1>3
  <2>2. rows'[b] = Row(l)
    <3> HIDE DEF Row, leaders
    <3>1. QED
      BY <1>2, <1>4
  <2>3. Group(l) = [n \in 1 .. R |-> IndexOf(b, n)]
    BY <2>1, GroupIs
  <2>4. Tasks[l] = TaskOf(b, 1)
    BY <2>1, IndicesAre
  <2>5. \A n \in 1 .. R : perTask[Group(l)[n]] = RunTask(TaskOf(b, n))
    BY <1>5, <2>3, IndicesAre
  <2>6. Row(l) = [size |-> ConfigAt(b).size, mode |-> ConfigAt(b).mode,
                  runs |-> [n \in 1 .. R |-> RunTask(TaskOf(b, n))]]
    <3>1. Tasks[l].size = ConfigAt(b).size /\ Tasks[l].mode = ConfigAt(b).mode
      BY <2>4 DEF TaskOf
    <3>2. DOMAIN Group(l) = 1 .. R
      BY <2>3
    <3> HIDE DEF l
    <3>3. [n \in DOMAIN Group(l) |-> perTask[Group(l)[n]]] = [n \in 1 .. R |-> RunTask(TaskOf(b, n))]
      BY <2>5, <3>2
    <3>4. QED
      BY <3>1, <3>3
  <2> HIDE DEF l, Row
  <2>7. QED
    BY <2>2, <2>6, RowIs
<1>7. DOMAIN rows' = 1 .. Blocks
  <2>1. DOMAIN leaders = 1 .. Blocks
    BY <1>4
  <2> HIDE DEF leaders, Row
  <2>2. QED
    BY <1>2, <2>1
<1>8. Len(rows') = Blocks
  <2>1. PICK table : table = rows'
    OBVIOUS
  <2>2. PICK S : S = {table[b] : b \in 1 .. Blocks}
    OBVIOUS
  <2>3. table \in [1 .. Blocks -> S]
    <3>1. table = [k \in 1 .. Blocks |-> table[k]]
      <4> HIDE DEF leaders, Row
      <4>1. QED
        BY <1>2, <1>7, <2>1
    <3>2. QED
      BY <2>2, <3>1
  <2>4. table \in Seq(S)
    BY <1>1, <2>3, SeqDef
  <2>5. Len(table) \in Nat /\ 1 .. Len(table) = 1 .. Blocks
    BY <1>7, <2>1, <2>4, LenProperties
  <2>6. QED
    BY <1>1, <2>1, <2>5
<1>9. QED
  <2>1. ASSUME NEW i \in DOMAIN Scales, NEW m \in DOMAIN Modes
        PROVE  IsRowOf(rows'[(i - 1) * Len(Modes) + m], Scales[i], Modes[m])
    <3>1. PICK b \in 1 .. Blocks : b = (i - 1) * Len(Modes) + m
      BY BlockIs
    <3>2. ConfigAt(b) = [size |-> Scales[i], mode |-> Modes[m]]
      BY <3>1, BlockIs
    <3>3. QED
      BY <1>6, <3>1, <3>2
  <2>2. QED
    BY <1>8, <2>1 DEF Blocks

\* Whatever the number of workers, and whichever of them is done first: each
\* result stands where its task does, and the rows are those of the serial loop.
THEOREM SweepIsSerial == Spec => []SweepIsOrderFree
<1> DEFINE AreAsked(table) ==
             table # <<>> =>
               /\ Len(table) = Len(Scales) * Len(Modes)
               /\ \A i \in DOMAIN Scales, m \in DOMAIN Modes :
                    IsRowOf(table[(i - 1) * Len(Modes) + m], Scales[i], Modes[m])
           RowsInv == DOMAIN perTask = DOMAIN Tasks /\ AreAsked(rows)
<1>1. Init => RowsInv
  BY DEF Init, InitSweep
<1>2. RowsInv /\ ResultsAreInPlace /\ [Next]_vars => RowsInv'
  <2> SUFFICES ASSUME RowsInv, ResultsAreInPlace, [Next]_vars PROVE RowsInv'
    OBVIOUS
  <2>1. CASE UNCHANGED <<perTask, rows>>
    BY <2>1
  <2>2. CASE TakeTask
    BY <2>2 DEF TakeTask
  <2>3. ASSUME NEW i \in DOMAIN perTask, Place(i)
        PROVE  RowsInv'
    BY <2>3 DEF Place
  <2>4. CASE AggregateRows
    <3>1. AreAsked(rows')
      BY <2>4, RowsAreMade
    <3>2. QED
      BY <2>4, <3>1 DEF AggregateRows
  <2>5. QED
    BY <2>1, <2>2, <2>3, <2>4
       DEF Next, vars, Configure, Launch, FromLayers, Simulate, Sweep, NextSweep, sweepVars
<1>3. RowsInv /\ ResultsAreInPlace => SweepIsOrderFree
  BY DEF SweepIsOrderFree
<1> HIDE DEF RowsInv
<1>4. QED
  BY <1>1, <1>2, <1>3, ResultsInPlace, PTL DEF Spec
=============================================================================
