---------------------------- MODULE PhysicsTick ----------------------------
(***************************************************************************)
(* The physics tick: PhysicsOrchestrator.run_tick asks the models in turn, *)
(* the engine applies what they report, or discards it if one of them      *)
(* raises, and the collector of physics metrics looks at every node.  Some *)
(* models keep a state of their own from tick to tick.  The topology loop  *)
(* replaces the graph between ticks.  Quantities are integers; a formula   *)
(* is what is kept of it, its direction and its bounds.                    *)
(***************************************************************************)
EXTENDS Integers, Sequences, FiniteSetsExt, Functions

CONSTANTS
  Nodes,
  Graphs,            \* the edge sets _build_graph may produce
  Models,            \* the enabled models, in the order of the configuration
  Fragile,           \* those of them that may raise
  Distances,         \* between the ends of a link
  Shadows,           \* the sets of nodes that may be in eclipse together
  DoseRates,
  MaxDose,           \* bound: a dose is not distinguished from a higher one
  LatchDose,         \* latchup_threshold_rad
  EclipseTemp, SolarTemp, \* the equilibria
  ThrottleTemp, CriticalTemp, FaultTemp,
  Capacity,          \* of a battery, which is half charged at first
  Generated,         \* power in the sun
  Gain,              \* charge gained in a tick in the sun
  DischargePower,
  Loss,              \* charge taken for a unit of energy delivered
  MaxTicks,          \* bound on the number of ticks
  None

Links == UNION Graphs

Temperatures == Min({EclipseTemp, SolarTemp}) .. Max({EclipseTemp, SolarTemp})

ASSUME PhysicsAssumption ==
  /\ Graphs \subseteq SUBSET (Nodes \X Nodes)
  /\ Fragile \subseteq {"custom"}
  /\ Models \in Seq({"thermal", "radiation", "power", "doppler", "custom"}) \ {<<>>}
  /\ Distances \subseteq Nat
  /\ Shadows \subseteq SUBSET Nodes
  /\ DoseRates \subseteq Nat \ {0}
  /\ {EclipseTemp, SolarTemp, ThrottleTemp, CriticalTemp, FaultTemp} \subseteq Nat
  /\ {LatchDose, MaxDose, MaxTicks, Capacity, Generated, Gain} \subseteq Nat
  /\ ThrottleTemp <= FaultTemp
  /\ 0 < LatchDose /\ LatchDose <= MaxDose
  /\ {DischargePower, Loss} \subseteq Nat \ {0}
  /\ None \notin Int

VARIABLES
  graph,             \* context.graph
  shiftOf,           \* the attribute doppler_shift_hz of its edges
  overrides,         \* context.combined_weight_overrides
  temperature, dose, \* physics_state of the nodes ...
  latched,           \* ... the nodes whose fault_probability is 1
  available, battery,
  faulted,           \* the nodes whose _fault_active is set
  charge,            \* PowerModel._battery_charge_wh
  previous, shift,   \* DopplerModel._prev_distance_km, _last_shift_hz
  distance,          \* of every pair of nodes at the last tick
  tick, event,       \* the number of ticks, and what the last one published
  throttled, blamed, \* what PhysicsMetricsCollector counted at the last event
  overheated,        \* history: the nodes that have been too hot once
  measured           \* history: the links DopplerModel saw at the last tick

nodeVars == <<temperature, dose, latched, available, battery, faulted>>
modelVars == <<charge, previous, shift>>
appliedVars == <<shiftOf, overrides, nodeVars, throttled, blamed, overheated>>
vars == <<graph, appliedVars, modelVars, distance, tick, event, measured>>

Abs(i) == IF i < 0 THEN -i ELSE i
-----------------------------------------------------------------------------
(* The models *)

Between(i, j) == Min({i, j}) .. Max({i, j})

\* ThermalModel: the temperature goes some way towards its equilibrium.
Warmer(n, dark) ==
  Between(temperature[n], IF n \in dark THEN EclipseTemp ELSE SolarTemp)

\* RadiationModel.
Dosed(n, rate) == Min({dose[n] + rate[n], MaxDose})

\* Fault: the limit by the charge is left out.
DrawUnlimited(n) == DischargePower

\* PowerModel: what a battery delivers in the dark.
Draw(n) == Min({DischargePower, charge[n]})

\* Fault: an empty battery is discharged on.
ChargedBelowZero(n, dark) ==
  IF n \in dark THEN charge[n] - Loss * Draw(n)
  ELSE Min({Capacity, charge[n] + Gain})

Charged(n, dark) ==
  IF n \in dark THEN Max({0, charge[n] - Loss * Draw(n)})
  ELSE Min({Capacity, charge[n] + Gain})

\* Fault: only the first sample of a link is kept.
SampleOnce(l) == IF l \in graph /\ previous[l] = None THEN distance'[l] ELSE previous[l]

\* DopplerModel: the links of the graph are sampled.
Sample(l) == IF l \in graph THEN distance'[l] ELSE previous[l]

Shifted(l) ==
  IF l \notin graph THEN shift[l]
  ELSE IF previous[l] = None THEN 0 ELSE previous[l] - distance'[l]

\* Fault: fault_probability is that of this tick.
LatchesWhileItLasts == {}

\* No model ever reports that fault_probability is 0 again.
Latches == latched

TooHot == {n \in Nodes : "thermal" \in Range(Models) /\ temperature'[n] >= CriticalTemp}

\* The nodes for which a model reports a fault_probability of 1.
Struck == TooHot \cup {n \in Nodes : "radiation" \in Range(Models) /\ dose'[n] >= LatchDose}
-----------------------------------------------------------------------------
(* The tick *)

Init ==
  /\ graph \in Graphs
  /\ shiftOf = [l \in Links |-> 0]
  /\ overrides = [l \in Links |-> 0]
  /\ temperature \in [Nodes -> Temperatures]
  /\ \A n \in Nodes : temperature[n] < ThrottleTemp
  /\ dose = [n \in Nodes |-> 0]
  /\ latched = {} /\ faulted = {} /\ overheated = {} /\ measured = {}
  /\ available = [n \in Nodes |-> Generated]
  /\ battery = [n \in Nodes |-> None]
  /\ charge = [n \in Nodes |-> Capacity \div 2]
  /\ previous = [l \in Links |-> None]
  /\ shift = [l \in Links |-> 0]
  /\ distance \in [Links -> Distances]
  /\ tick = 0
  /\ event = "none"
  /\ throttled = {} /\ blamed = {}

\* The models that have had their turn when the k-th raises.
Asked(k) == {Models[i] : i \in 1 .. k - 1}

\* What the models in ran do to themselves.
Advance(ran, dark) ==
  /\ charge' = IF "power" \in ran THEN [n \in Nodes |-> Charged(n, dark)] ELSE charge
  /\ IF "doppler" \in ran
     THEN /\ previous' = [l \in Links |-> Sample(l)]
          /\ shift' = [l \in Links |-> Shifted(l)]
     ELSE UNCHANGED <<previous, shift>>
  /\ measured' = IF "doppler" \in ran THEN graph ELSE {}

\* Fault: what is reported is the charge before the tick.
ReportBefore == charge

Report == charge'

\* The merged updates of thermal, radiation and power model.
UpdateNodes(dark, rate) ==
  /\ IF "thermal" \in Range(Models)
     THEN temperature' \in {t \in [Nodes -> Temperatures] :
                              \A n \in Nodes : t[n] \in Warmer(n, dark)}
     ELSE UNCHANGED temperature
  /\ dose' = IF "radiation" \in Range(Models)
             THEN [n \in Nodes |-> Dosed(n, rate)] ELSE dose
  /\ latched' = Latches \cup Struck
  /\ IF "power" \in Range(Models)
     THEN /\ available' = [n \in Nodes |-> IF n \in dark THEN Draw(n) ELSE Generated]
          /\ battery' = Report
     ELSE UNCHANGED <<available, battery>>
  /\ faulted' = latched' \cup {n \in Nodes : temperature'[n] >= FaultTemp}
  /\ overheated' = overheated \cup TooHot

\* Fault: the penalties are those before the tick.
PenaltyBefore(l) == IF l \in graph THEN Abs(shift[l]) ELSE 0

Penalty(l) == IF l \in graph THEN Abs(shift'[l]) ELSE 0

UpdateLinks ==
  IF "doppler" \in Range(Models)
  THEN /\ shiftOf' = [l \in Links |-> IF l \in graph THEN shift'[l] ELSE 0]
       /\ overrides' = [l \in Links |-> Penalty(l)]
  ELSE /\ overrides' = [l \in Links |-> 0]
       /\ UNCHANGED shiftOf

\* Fault: what is a radiation fault is decided by the wrong threshold.
BlamedIfCool == {n \in latched' : temperature'[n] < ThrottleTemp}

\* The nodes whose fault the collector takes for a radiation fault.
Blamed == {n \in latched' : temperature'[n] < FaultTemp}

Collect ==
  /\ throttled' = {n \in Nodes : ThrottleTemp <= temperature'[n] /\ temperature'[n] < FaultTemp}
  /\ blamed' = Blamed

\* The k-th model raises, or none if k is beyond the last.
Tick(k) ==
  /\ tick < MaxTicks
  /\ tick' = tick + 1
  /\ distance' \in [Links -> Distances]
  /\ \E dark \in Shadows, rate \in [Nodes -> DoseRates] :
       /\ Advance(Asked(k), dark)
       /\ IF k > Len(Models)
          THEN /\ UpdateNodes(dark, rate)
               /\ UpdateLinks
               /\ Collect
               /\ event' = "physics_tick"
          ELSE /\ UNCHANGED appliedVars
               /\ event' = "engine_error"
  /\ UNCHANGED graph

\* The new graph has new attributes; the penalties are kept.
TopologyUpdate ==
  /\ graph' \in Graphs
  /\ shiftOf' = [l \in Links |-> 0]
  /\ UNCHANGED <<overrides, nodeVars, throttled, blamed, overheated,
                 modelVars, distance, tick, event, measured>>

Failures == {i \in 1 .. Len(Models) : Models[i] \in Fragile}

Next ==
  \/ \E k \in Failures \cup {Len(Models) + 1} : Tick(k)
  \/ TopologyUpdate

Spec == Init /\ [][Next]_vars
-----------------------------------------------------------------------------
(* Properties. *)

\* Every variable keeps its type; no battery is below zero or above capacity.
TypeOK ==
  /\ graph \in Graphs
  /\ shiftOf \in [Links -> Int]
  /\ overrides \in [Links -> Nat]
  /\ temperature \in [Nodes -> Temperatures]
  /\ dose \in [Nodes -> 0 .. MaxDose]
  /\ {latched, faulted, overheated, throttled, blamed} \subseteq SUBSET Nodes
  /\ available \in [Nodes -> Nat]
  /\ battery \in [Nodes -> 0 .. Capacity \cup {None}]
  /\ charge \in [Nodes -> 0 .. Capacity]
  /\ previous \in [Links -> Distances \cup {None}]
  /\ shift \in [Links -> Int]
  /\ distance \in [Links -> Distances]
  /\ measured \in Graphs \cup {{}}
  /\ tick \in 0 .. MaxTicks
  /\ event \in {"none", "physics_tick", "engine_error"}

\* A node is out of service exactly if it is too hot now, has had its dose, or
\* has once been over the critical temperature: it does not recover from the
\* last two, whatever the models report later.
FaultsAreExplained ==
  faulted = overheated \cup {n \in Nodes : dose[n] >= LatchDose \/ temperature[n] >= FaultTemp}

\* What a node reports of its battery is what the model has in its books, unless
\* the last tick was discarded; the next one makes up for that.
BatteryIsReported ==
  event = "physics_tick" /\ "power" \in Range(Models) => battery = charge

\* A battery that is drained delivers no more energy than it loses.
BatteryGivesWhatItLoses ==
  [][event' = "physics_tick" /\ tick' # tick =>
       \A n \in Nodes : charge'[n] < charge[n] => available'[n] <= charge[n] - charge'[n]]_vars

\* The shift of a link that was there at the last tick is the change of its
\* length since then, also if that tick was discarded.
ShiftIsOverOneTick ==
  [][event' = "physics_tick" /\ tick' # tick /\ "doppler" \in Range(Models) =>
       \A l \in graph \cap measured : shiftOf'[l] = distance[l] - distance'[l]]_vars

\* A link whose attribute says it is shifted carries the penalty for just this
\* shift, whatever ticks were discarded and rebuilds have come in between.
PenaltyMatchesShift ==
  \A l \in Links : shiftOf[l] # 0 => l \in graph /\ overrides[l] = Abs(shiftOf[l])

\* A node the collector counts as a radiation fault is out of service, and a
\* node that is out of service and is not counted is too hot.
BlameAgreesWithFaults ==
  blamed = {n \in faulted : temperature[n] < FaultTemp}

\* "The fault is radiation-induced."
BlameIsForRadiation == \A n \in blamed : dose[n] >= LatchDose
=============================================================================
