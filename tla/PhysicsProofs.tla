---------------------------- MODULE PhysicsProofs ----------------------------
(***************************************************************************)
(* Theorems about PhysicsTick for any nodes, graphs, models in any order,  *)
(* thresholds and battery.                                                 *)
(***************************************************************************)
EXTENDS PhysicsTick, TLAPS

\* The flags and the collector's list follow from the nodes' state.
Explained == FaultsAreExplained /\ latched = overheated \cup {n \in Nodes : dose[n] >= LatchDose}

\* Without a Doppler model no link is ever shifted.
Matched == PenaltyMatchesShift /\ ("doppler" \notin Range(Models) => shiftOf = [l \in Links |-> 0])

\* What the Doppler model remembers of a link it saw at the last tick.
Remembered == \A l \in measured \cap Links : previous[l] = distance[l]

IInv == TypeOK /\ Explained /\ BlameAgreesWithFaults /\ BatteryIsReported /\ Matched /\ Remembered
-----------------------------------------------------------------------------
(* Smallest and greatest of two, and what the models make of them. *)

LEMMA MinOfTwo ==
  ASSUME NEW i \in Int, NEW j \in Int
  PROVE  Min({i, j}) = IF i <= j THEN i ELSE j
<1>1. i <= j \/ j <= i
  OBVIOUS
<1> QED
  BY <1>1 DEF Min

LEMMA MaxOfTwo ==
  ASSUME NEW i \in Int, NEW j \in Int
  PROVE  Max({i, j}) = IF i >= j THEN i ELSE j
<1>1. i >= j \/ j >= i
  OBVIOUS
<1> QED
  BY <1>1 DEF Max

LEMMA TemperaturesAreNat == Temperatures \subseteq Nat
BY MinOfTwo, MaxOfTwo, PhysicsAssumption DEF Temperatures

\* A dose never shrinks, and is bounded.
LEMMA DoseGrows ==
  ASSUME TypeOK, NEW n \in Nodes, NEW rate \in [Nodes -> DoseRates]
  PROVE  Dosed(n, rate) \in dose[n] .. MaxDose
<1>1. rate[n] \in Nat /\ dose[n] \in 0 .. MaxDose /\ MaxDose \in Nat
  BY PhysicsAssumption DEF TypeOK
<1>2. dose[n] + rate[n] \in Nat
  BY <1>1
<1>3. Dosed(n, rate) = IF dose[n] + rate[n] <= MaxDose THEN dose[n] + rate[n] ELSE MaxDose
  BY <1>1, <1>2, MinOfTwo DEF Dosed
<1> QED
  BY <1>1, <1>2, <1>3

LEMMA LossIsNoGain ==
  ASSUME NEW x \in Nat
  PROVE  Loss * x \in Nat /\ Loss * x >= x
<1>1. Loss \in Nat /\ Loss >= 1
  BY PhysicsAssumption
<1>2. Loss * x = x + (Loss - 1) * x
  BY <1>1
<1>3. (Loss - 1) * x \in Nat
  BY <1>1
<1> QED
  BY <1>1, <1>2, <1>3

\* A battery stays within its capacity, and only a node in the dark loses charge,
\* no less than what it draws.
LEMMA BatteryBalance ==
  ASSUME TypeOK, NEW n \in Nodes, NEW dark
  PROVE  /\ Charged(n, dark) \in 0 .. Capacity
         /\ Draw(n) \in Nat
         /\ Charged(n, dark) < charge[n] => n \in dark /\ Draw(n) <= charge[n] - Charged(n, dark)
<1>1. /\ charge[n] \in 0 .. Capacity
      /\ {Capacity, Gain, DischargePower} \subseteq Nat
  BY PhysicsAssumption DEF TypeOK
<1>2. Draw(n) \in Nat /\ Draw(n) <= charge[n]
  BY <1>1, MinOfTwo DEF Draw
<1>3. Loss * Draw(n) \in Nat /\ Loss * Draw(n) >= Draw(n)
  BY <1>2, LossIsNoGain
<1>4. CASE n \in dark
  <2>1. charge[n] - Loss * Draw(n) \in Int
    BY <1>1, <1>3
  <2>2. Charged(n, dark) = IF 0 >= charge[n] - Loss * Draw(n) THEN 0 ELSE charge[n] - Loss * Draw(n)
    BY <1>4, <2>1, MaxOfTwo DEF Charged
  <2> QED
    BY <1>1, <1>2, <1>3, <1>4, <2>2
<1>5. CASE n \notin dark
  <2>1. Charged(n, dark) = IF Capacity <= charge[n] + Gain THEN Capacity ELSE charge[n] + Gain
    BY <1>1, <1>5, MinOfTwo DEF Charged
  <2> QED
    BY <1>1, <1>2, <1>5, <2>1
<1> QED
  BY <1>4, <1>5

LEMMA AllAsked == Asked(Len(Models) + 1) = Range(Models)
<1>1. Len(Models) \in Nat /\ DOMAIN Models = 1 .. Len(Models)
  BY PhysicsAssumption
<1> QED
  BY <1>1 DEF Asked, Range
-----------------------------------------------------------------------------
(* Steps *)

LEMMA InitEstablishes == Init => IInv
<1> SUFFICES ASSUME Init PROVE IInv
  OBVIOUS
<1>1. ThrottleTemp \in Nat /\ FaultTemp \in Nat /\ ThrottleTemp <= FaultTemp
      /\ LatchDose \in Nat /\ 0 < LatchDose /\ {Capacity, MaxDose, MaxTicks, Generated} \subseteq Nat
  BY PhysicsAssumption
<1>2. Capacity \div 2 \in 0 .. Capacity
  BY <1>1
<1>3. TypeOK
  BY <1>1, <1>2 DEF Init, TypeOK
<1>4. \A n \in Nodes : ~ temperature[n] >= FaultTemp
  <2>1. \A n \in Nodes : temperature[n] \in Nat
    BY <1>3, TemperaturesAreNat DEF TypeOK
  <2>2. \A n \in Nodes : temperature[n] < ThrottleTemp
    BY DEF Init
  <2> QED
    BY <1>1, <2>1, <2>2
<1>5. \A n \in Nodes : ~ dose[n] >= LatchDose
  BY <1>1 DEF Init
<1>6. Explained /\ BlameAgreesWithFaults
  BY <1>4, <1>5 DEF Init, Explained, FaultsAreExplained, BlameAgreesWithFaults
<1>7. BatteryIsReported /\ Matched /\ Remembered
  BY DEF Init, BatteryIsReported, Matched, PenaltyMatchesShift, Remembered
<1> QED
  BY <1>3, <1>6, <1>7 DEF IInv

\* Models keep their own state typed, whether or not the tick is applied.
LEMMA AdvanceTyped ==
  ASSUME TypeOK, NEW ran, NEW dark, Advance(ran, dark),
         distance' \in [Links -> Distances], UNCHANGED graph
  PROVE  /\ charge' \in [Nodes -> 0 .. Capacity]
         /\ previous' \in [Links -> Distances \cup {None}]
         /\ shift' \in [Links -> Int]
         /\ measured' \in Graphs \cup {{}}
         /\ Remembered'
<1>1. charge' \in [Nodes -> 0 .. Capacity]
  BY BatteryBalance DEF Advance, TypeOK
<1>2. \A l \in Links : Sample(l) \in Distances \cup {None} /\ Shifted(l) \in Int
  <2>1. TAKE l \in Links
  <2>2. /\ previous[l] \in Distances \cup {None} /\ shift[l] \in Int
        /\ distance'[l] \in Distances
    BY DEF TypeOK
  <2>3. Distances \subseteq Int
    BY PhysicsAssumption
  <2>4. Sample(l) \in Distances \cup {None}
    BY <2>2 DEF Sample
  <2>5. ASSUME previous[l] # None PROVE previous[l] - distance'[l] \in Int
    <3>1. previous[l] \in Int
      BY <2>2, <2>3, <2>5, Zenon
    <3>2. distance'[l] \in Int
      BY <2>2, <2>3, Zenon
    <3> QED
      BY <3>1, <3>2
  <2>6. Shifted(l) \in Int
    BY <2>2, <2>5 DEF Shifted
  <2> QED
    BY <2>4, <2>6
<1>3. CASE "doppler" \in ran
  <2>1. /\ previous' = [l \in Links |-> Sample(l)]
        /\ shift' = [l \in Links |-> Shifted(l)]
        /\ measured' = graph
    BY <1>3, Zenon DEF Advance
  <2>2. Remembered'
    BY <2>1 DEF Remembered, Sample
  <2> QED
    BY <1>1, <1>2, <2>1, <2>2 DEF TypeOK
<1>4. CASE "doppler" \notin ran
  <2>1. UNCHANGED <<previous, shift>> /\ measured' = {}
    BY <1>4, Zenon DEF Advance
  <2> QED
    BY <1>1, <2>1 DEF TypeOK, Remembered
<1> QED
  BY <1>3, <1>4

\* The updates of the nodes keep the reasons for every fault.
LEMMA NodesUpdated ==
  ASSUME IInv, NEW dark, NEW rate \in [Nodes -> DoseRates], UpdateNodes(dark, rate), Collect,
         charge' \in [Nodes -> 0 .. Capacity]
  PROVE  /\ temperature' \in [Nodes -> Temperatures]
         /\ dose' \in [Nodes -> 0 .. MaxDose]
         /\ {latched', faulted', overheated', throttled', blamed'} \subseteq SUBSET Nodes
         /\ available' \in [Nodes -> Nat]
         /\ battery' \in [Nodes -> 0 .. Capacity \cup {None}]
         /\ Explained' /\ BlameAgreesWithFaults'
<1>1. temperature' \in [Nodes -> Temperatures]
  BY DEF IInv, TypeOK, UpdateNodes
<1>2. dose' \in [Nodes -> 0 .. MaxDose] /\ \A n \in Nodes : dose'[n] >= dose[n]
  <2>1. CASE "radiation" \in Range(Models)
    <3>1. dose' = [n \in Nodes |-> Dosed(n, rate)]
      BY <2>1, Zenon DEF UpdateNodes
    <3>2. \A n \in Nodes : dose[n] \in 0 .. MaxDose /\ Dosed(n, rate) \in dose[n] .. MaxDose
      BY DoseGrows DEF IInv, TypeOK
    <3>3. MaxDose \in Nat
      BY PhysicsAssumption
    <3>4. \A n \in Nodes : Dosed(n, rate) \in 0 .. MaxDose /\ Dosed(n, rate) >= dose[n]
      BY <3>2, <3>3
    <3> QED
      BY <3>1, <3>4
  <2>2. CASE "radiation" \notin Range(Models)
    <3>1. dose' = dose
      BY <2>2, Zenon DEF UpdateNodes
    <3> QED
      BY <3>1, PhysicsAssumption DEF IInv, TypeOK
  <2> QED
    BY <2>1, <2>2
<1>3. /\ latched' = latched \cup Struck
      /\ overheated' = overheated \cup TooHot
      /\ faulted' = latched' \cup {n \in Nodes : temperature'[n] >= FaultTemp}
  BY Zenon DEF UpdateNodes, Latches
<1>4. TooHot \subseteq Nodes /\ Struck \subseteq Nodes
  BY DEF TooHot, Struck
<1>5. {latched', faulted', overheated', throttled', blamed'} \subseteq SUBSET Nodes
  BY <1>3, <1>4 DEF IInv, TypeOK, Collect, Blamed
<1>6. available' \in [Nodes -> Nat] /\ battery' \in [Nodes -> 0 .. Capacity \cup {None}]
  <2>1. CASE "power" \in Range(Models)
    <3>1. /\ available' = [n \in Nodes |-> IF n \in dark THEN Draw(n) ELSE Generated]
          /\ battery' = charge'
      BY <2>1, Zenon DEF UpdateNodes, Report
    <3>2. \A n \in Nodes : Draw(n) \in Nat
      BY BatteryBalance DEF IInv
    <3> QED
      BY <3>1, <3>2, PhysicsAssumption
  <2>2. CASE "power" \notin Range(Models)
    <3>1. UNCHANGED <<available, battery>>
      BY <2>2, Zenon DEF UpdateNodes
    <3> QED
      BY <3>1 DEF IInv, TypeOK
  <2> QED
    BY <2>1, <2>2
<1>7. latched' = overheated' \cup {n \in Nodes : dose'[n] >= LatchDose}
  <2>1. LatchDose \in Nat /\ \A n \in Nodes : dose[n] \in Int /\ dose'[n] \in Int
    BY <1>2, PhysicsAssumption DEF IInv, TypeOK
  <2>2. \A n \in Nodes : dose[n] >= LatchDose => dose'[n] >= LatchDose
    BY <1>2, <2>1
  <2>3. "radiation" \notin Range(Models) => dose' = dose
    BY Zenon DEF UpdateNodes
  <2>4. latched = overheated \cup {n \in Nodes : dose[n] >= LatchDose}
    BY DEF IInv, Explained
  <2> QED
    BY <1>3, <2>2, <2>3, <2>4 DEF Struck
<1>8. Explained' /\ BlameAgreesWithFaults'
  <2>1. blamed' = {n \in latched' : temperature'[n] < FaultTemp}
    BY Zenon DEF Collect, Blamed
  <2>2. \A n \in Nodes : temperature'[n] >= FaultTemp <=> ~ temperature'[n] < FaultTemp
    <3>1. FaultTemp \in Nat
      BY PhysicsAssumption
    <3>2. \A n \in Nodes : temperature'[n] \in Nat
      BY <1>1, TemperaturesAreNat
    <3> QED
      BY <3>1, <3>2
  <2> QED
    BY <1>3, <1>5, <1>7, <2>1, <2>2 DEF Explained, FaultsAreExplained, BlameAgreesWithFaults
<1> QED
  BY <1>1, <1>2, <1>5, <1>6, <1>8

\* Attributes and penalties come from the same shifts.
LEMMA LinksUpdated ==
  ASSUME IInv, UpdateLinks, shift' \in [Links -> Int], UNCHANGED graph
  PROVE  /\ shiftOf' \in [Links -> Int]
         /\ overrides' \in [Links -> Nat]
         /\ Matched'
<1>1. \A i \in Int : Abs(i) \in Nat
  BY DEF Abs
<1>2. CASE "doppler" \in Range(Models)
  <2>1. /\ shiftOf' = [l \in Links |-> IF l \in graph THEN shift'[l] ELSE 0]
        /\ overrides' = [l \in Links |-> IF l \in graph THEN Abs(shift'[l]) ELSE 0]
    BY <1>2 DEF UpdateLinks, Penalty
  <2> QED
    BY <1>1, <1>2, <2>1 DEF Matched, PenaltyMatchesShift
<1>3. CASE "doppler" \notin Range(Models)
  <2>1. shiftOf' = shiftOf /\ overrides' = [l \in Links |-> 0] /\ shiftOf = [l \in Links |-> 0]
    BY <1>3, Zenon DEF UpdateLinks, IInv, Matched
  <2> QED
    BY <1>3, <2>1 DEF Matched, PenaltyMatchesShift
<1> QED
  BY <1>2, <1>3

LEMMA TickPreserves ==
  ASSUME IInv, NEW k, Tick(k)
  PROVE  IInv'
<1>1. PICK dark \in Shadows, rate \in [Nodes -> DoseRates] :
        /\ Advance(Asked(k), dark)
        /\ IF k > Len(Models)
           THEN UpdateNodes(dark, rate) /\ UpdateLinks /\ Collect /\ event' = "physics_tick"
           ELSE UNCHANGED appliedVars /\ event' = "engine_error"
  BY Zenon DEF Tick
<1>2. /\ UNCHANGED graph
      /\ distance' \in [Links -> Distances]
      /\ tick' \in 0 .. MaxTicks
  BY PhysicsAssumption DEF IInv, TypeOK, Tick
<1>3. /\ charge' \in [Nodes -> 0 .. Capacity]
      /\ previous' \in [Links -> Distances \cup {None}]
      /\ shift' \in [Links -> Int]
      /\ measured' \in Graphs \cup {{}}
      /\ Remembered'
  BY <1>1, <1>2, AdvanceTyped DEF IInv
<1>4. CASE k > Len(Models)
  <2>1. UpdateNodes(dark, rate) /\ UpdateLinks /\ Collect /\ event' = "physics_tick"
    BY <1>1, <1>4, Zenon
  <2>2. BatteryIsReported'
    BY <2>1, Zenon DEF BatteryIsReported, UpdateNodes, Report
  <2>3. TypeOK'
    BY <1>2, <1>3, <2>1, NodesUpdated, LinksUpdated DEF IInv, TypeOK
  <2> QED
    BY <1>2, <1>3, <2>1, <2>2, <2>3, NodesUpdated, LinksUpdated DEF IInv
<1>5. CASE ~ k > Len(Models)
  <2>1. UNCHANGED appliedVars /\ event' = "engine_error"
    BY <1>1, <1>5, Zenon
  <2>2. TypeOK'
    BY <1>2, <1>3, <2>1 DEF IInv, TypeOK, appliedVars, nodeVars
  <2>3. Explained' /\ BlameAgreesWithFaults' /\ BatteryIsReported' /\ Matched'
    BY <1>2, <2>1 DEF IInv, Explained, FaultsAreExplained, BlameAgreesWithFaults,
                      BatteryIsReported, Matched, PenaltyMatchesShift, appliedVars, nodeVars
  <2> QED
    BY <1>3, <2>2, <2>3 DEF IInv
<1> QED
  BY <1>4, <1>5

LEMMA StepPreserves == IInv /\ [Next]_vars => IInv'
<1> SUFFICES ASSUME IInv, [Next]_vars PROVE IInv'
  OBVIOUS
<1>1. CASE \E k \in Failures \cup {Len(Models) + 1} : Tick(k)
  BY <1>1, TickPreserves
<1>2. CASE TopologyUpdate
  <2>1. TypeOK'
    BY <1>2 DEF IInv, TypeOK, TopologyUpdate, nodeVars, modelVars
  <2>2. Explained' /\ BlameAgreesWithFaults' /\ BatteryIsReported' /\ Matched' /\ Remembered'
    BY <1>2 DEF IInv, TopologyUpdate, nodeVars, modelVars, Explained, FaultsAreExplained,
                BlameAgreesWithFaults, BatteryIsReported, Matched, PenaltyMatchesShift, Remembered
  <2> QED
    BY <2>1, <2>2 DEF IInv
<1>3. CASE UNCHANGED vars
  BY <1>3 DEF IInv, TypeOK, vars, appliedVars, nodeVars, modelVars, Explained, FaultsAreExplained,
              BlameAgreesWithFaults, BatteryIsReported, Matched, PenaltyMatchesShift, Remembered
<1> QED
  BY <1>1, <1>2, <1>3 DEF Next

LEMMA Invariance == Spec => []IInv
BY InitEstablishes, StepPreserves, PTL DEF Spec
-----------------------------------------------------------------------------
(* Theorems *)

\* The variables keep their types: a battery stays between empty and full.
THEOREM TypeCorrect == Spec => []TypeOK
<1>1. IInv => TypeOK
  BY DEF IInv
<1> QED
  BY <1>1, Invariance, PTL

\* A node is out of service for a reason that is still there, or for one that
\* the code never forgives.
THEOREM FaultsHaveReasons == Spec => []FaultsAreExplained
<1>1. IInv => FaultsAreExplained
  BY DEF IInv, Explained
<1> QED
  BY <1>1, Invariance, PTL

\* Nodes and model agree on the charge, unless a tick has just been discarded.
THEOREM BatteryReportsAreCurrent == Spec => []BatteryIsReported
<1>1. IInv => BatteryIsReported
  BY DEF IInv
<1> QED
  BY <1>1, Invariance, PTL

\* Shifts and penalties of the links of the graph are of the same tick.
THEOREM PenaltiesMatch == Spec => []PenaltyMatchesShift
<1>1. IInv => PenaltyMatchesShift
  BY DEF IInv, Matched
<1> QED
  BY <1>1, Invariance, PTL

\* The collector's idea of a fault and the node's are the same.
THEOREM BlameIsForFaults == Spec => []BlameAgreesWithFaults
<1>1. IInv => BlameAgreesWithFaults
  BY DEF IInv
<1> QED
  BY <1>1, Invariance, PTL
-----------------------------------------------------------------------------
\* An applied tick is one of all models.
LEMMA AppliedTick ==
  ASSUME IInv, [Next]_vars, event' = "physics_tick", tick' # tick
  PROVE  \E dark \in Shadows, rate \in [Nodes -> DoseRates] :
           /\ Advance(Range(Models), dark)
           /\ UpdateNodes(dark, rate) /\ UpdateLinks
<1>1. PICK k \in Failures \cup {Len(Models) + 1} : Tick(k)
  BY DEF Next, TopologyUpdate, vars
<1>2. PICK dark \in Shadows, rate \in [Nodes -> DoseRates] :
        /\ Advance(Asked(k), dark)
        /\ IF k > Len(Models)
           THEN UpdateNodes(dark, rate) /\ UpdateLinks /\ Collect /\ event' = "physics_tick"
           ELSE UNCHANGED appliedVars /\ event' = "engine_error"
  BY <1>1, Zenon DEF Tick
<1>3. k > Len(Models)
  BY <1>2
<1>4. k = Len(Models) + 1
  BY <1>1, <1>3, PhysicsAssumption DEF Failures
<1>5. Advance(Range(Models), dark)
  BY <1>2, <1>4, AllAsked
<1> QED
  BY <1>2, <1>3, <1>5

\* In the dark a node is never given more energy than its battery loses.
THEOREM BatteriesAreHonest == Spec => BatteryGivesWhatItLoses
<1>1. ASSUME IInv, [Next]_vars, event' = "physics_tick", tick' # tick,
             NEW n \in Nodes, charge'[n] < charge[n]
      PROVE  available'[n] <= charge[n] - charge'[n]
  <2>1. PICK dark \in Shadows, rate \in [Nodes -> DoseRates] :
          Advance(Range(Models), dark) /\ UpdateNodes(dark, rate)
    BY <1>1, AppliedTick
  <2>2. charge[n] \in Int
    BY <1>1 DEF IInv, TypeOK
  <2>3. CASE "power" \in Range(Models)
    <3>1. charge'[n] = Charged(n, dark)
      BY <2>1, <2>3 DEF Advance
    <3>2. available'[n] = IF n \in dark THEN Draw(n) ELSE Generated
      BY <2>1, <2>3 DEF UpdateNodes
    <3> QED
      BY <1>1, <3>1, <3>2, BatteryBalance DEF IInv
  <2>4. CASE "power" \notin Range(Models)
    <3>1. charge' = charge
      BY <2>1, <2>4, Zenon DEF Advance
    <3> QED
      BY <1>1, <2>2, <3>1
  <2> QED
    BY <2>3, <2>4
<1>2. IInv /\ [Next]_vars =>
        [event' = "physics_tick" /\ tick' # tick =>
           \A n \in Nodes : charge'[n] < charge[n] => available'[n] <= charge[n] - charge'[n]]_vars
  BY <1>1
<1> QED
  BY <1>2, Invariance, PTL DEF Spec, BatteryGivesWhatItLoses

\* The shift of a link is over one tick if the link was there a tick ago.
THEOREM ShiftsAreOverOneTick == Spec => ShiftIsOverOneTick
<1>1. ASSUME IInv, [Next]_vars, event' = "physics_tick", tick' # tick,
             "doppler" \in Range(Models), NEW l \in graph \cap measured
      PROVE  shiftOf'[l] = distance[l] - distance'[l]
  <2>1. PICK dark \in Shadows : Advance(Range(Models), dark) /\ UpdateLinks
    BY <1>1, AppliedTick
  <2>2. l \in Links /\ previous[l] = distance[l] /\ previous[l] # None
    <3>1. l \in Links
      BY <1>1 DEF IInv, TypeOK, Links
    <3>2. distance[l] \in Distances
      BY <1>1, <3>1 DEF IInv, TypeOK
    <3>3. Distances \subseteq Int /\ None \notin Int
      BY PhysicsAssumption
    <3> QED
      BY <1>1, <3>1, <3>2, <3>3 DEF IInv, Remembered
  <2>3. shift'[l] = Shifted(l)
    BY <1>1, <2>1, <2>2 DEF Advance
  <2>4. shiftOf'[l] = shift'[l]
    BY <1>1, <2>1, <2>2 DEF UpdateLinks
  <2> QED
    BY <1>1, <2>2, <2>3, <2>4 DEF Shifted
<1>2. IInv /\ [Next]_vars =>
        [event' = "physics_tick" /\ tick' # tick /\ "doppler" \in Range(Models) =>
           \A l \in graph \cap measured : shiftOf'[l] = distance[l] - distance'[l]]_vars
  BY <1>1
<1> QED
  BY <1>2, Invariance, PTL DEF Spec, ShiftIsOverOneTick
=============================================================================
