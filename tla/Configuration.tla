---------------------------- MODULE Configuration ----------------------------
(***************************************************************************)
(* From what a user asks for to the specification of a simulation: the     *)
(* schema, the translation, the registries, and the programs that ask: the *)
(* function simulate, the commands of skynetra, and the scaling sweep.     *)
(***************************************************************************)
EXTENDS Integers, Sequences, SequencesExt

CONSTANTS
  DefaultConfig,   \* FullConfig()
  Scales,          \* the constellations the sweeps go through, in order
  Seeds            \* the runs of one configuration in the scaling sweep

ConfigFields ==
  {"size", "pods", "grounds", "sight", "routing", "physics", "workloads", "profiles", "metrics",
   "unknown"}

\* No model is enabled by default.
ASSUME DefaultsAssumption ==
  /\ ConfigFields \subseteq DOMAIN DefaultConfig
  /\ DefaultConfig.physics = {}

\* Constellations are built of planes of satellites.
ASSUME ScalesAssumption == Scales \in Seq(Nat \X Nat)

RoutingStrategies == {"shortest_path", "backpressure", "geographic_greedy",
                      "thermal_energy_aware", "physics_compute_synergy"}
PhysicsModels == {"thermal", "radiation", "power", "doppler"}
WorkloadNames == {"ai_training_sync", "inference_query", "federated_learning"}
CollectorNames == {"network_metrics", "compute_metrics", "topology_metrics", "physics_metrics"}

\* What the constructor of each workload accepts.
PatternsOf(name) ==
  CASE name = "ai_training_sync" -> {"all_reduce", "parameter_server"}
    [] name = "inference_query" -> {"poisson", "on_off", "bursty"}
    [] name = "federated_learning" -> {"federated"}

\* What the switch for physics turns on; Doppler it leaves as it is.
SwitchedOn == {"thermal", "radiation", "power"}

\* dict.update, field by field.
Overlay(cfg, changes) ==
  [f \in DOMAIN cfg \cup DOMAIN changes |->
     IF f \in DOMAIN changes THEN changes[f] ELSE cfg[f]]
-----------------------------------------------------------------------------
(* Programs that ask *)

\* A workload argument is known by the words it contains, the first that fits.
WorkloadName(arg) ==
  IF "infer" \in arg.words THEN "inference_query"
  ELSE IF arg.words \cap {"train", "all_reduce"} # {} THEN "ai_training_sync"
  ELSE IF "fed" \in arg.words THEN "federated_learning"
  ELSE arg.name

\* simulate: a configuration given as such, be it empty, makes all other arguments
\* void; one that is None is not given.
SimulateConfig(args) ==
  IF "config" \in DOMAIN args THEN Overlay(DefaultConfig, args.config)
  ELSE Overlay(DefaultConfig,
         [size |-> args.size, pods |-> args.pods, grounds |-> args.grounds,
          routing |-> args.routing,
          workloads |-> [i \in DOMAIN args.workloads |-> WorkloadName(args.workloads[i])],
          physics |-> IF args.physics THEN SwitchedOn ELSE {},
          metrics |-> <<"network_metrics", "compute_metrics", "physics_metrics",
                        "topology_metrics">>])

\* load_config; file = <<>> if there is none.
LoadConfig(file) == Overlay(DefaultConfig, file)

\* _load_base_config
LoadBaseConfig(file, physics) ==
  IF physics THEN [LoadConfig(file) EXCEPT !.physics = @ \cup SwitchedOn] ELSE LoadConfig(file)

\* gen_config: a file that gives every field.
GenConfig(physics) == LoadBaseConfig(<<>>, physics)

\* apply_physics_mode
WithPhysicsMode(cfg, mode) ==
  IF mode = "disabled" THEN cfg
  ELSE [cfg EXCEPT
         !.physics = @ \cup (IF mode = "full_physics" THEN SwitchedOn ELSE {"thermal"}),
         !.metrics = IF Contains(@, "physics_metrics") THEN @ ELSE Append(@, "physics_metrics")]

\* The configuration a program starts from.
BaseConfig(request) ==
  CASE request.program = "simulate" -> SimulateConfig(request)
    [] request.program = "compare" -> LoadBaseConfig(request.file, FALSE)
    [] request.program \in {"run", "sweep"} -> LoadBaseConfig(request.file, request.physics)
    [] request.program = "scaling_sweep" -> DefaultConfig

\* What a command assigns to its one configuration object before each of its
\* simulations.
RunPlan(request) == <<request.options>>

\* Fault: only a second pod is asked for, and stays.
SweepPlanKeepingPods ==
  FlattenSeq([i \in DOMAIN Scales |-> <<[size |-> Scales[i]], [size |-> Scales[i], pods |-> 2]>>])

SweepPlan ==
  FlattenSeq([i \in DOMAIN Scales |->
    <<[size |-> Scales[i], pods |-> 1], [size |-> Scales[i], pods |-> 2]>>])

ComparePlan ==
  <<[routing |-> "shortest_path"], [routing |-> "backpressure"],
    [routing |-> "geographic_greedy"], [routing |-> "thermal_energy_aware"],
    [routing |-> "physics_compute_synergy"]>>

Plan(request) ==
  CASE request.program = "run" -> RunPlan(request)
    [] request.program = "sweep" -> SweepPlan
    [] request.program = "compare" -> ComparePlan
    [] OTHER -> << <<>> >>
-----------------------------------------------------------------------------
(* FullConfig, config_to_simulation_spec, from_spec *)

\* The schema forbids unknown sections, and has the strategies as literals; a
\* size that is not two numbers has no place in it.  A command line changes the
\* configuration after it has been validated.
IsValid(cfg) ==
  /\ cfg.unknown = {}
  /\ Len(cfg.size) = 2
  /\ cfg.routing \in RoutingStrategies

\* getattr(config.workload, name) of every active workload.
IsTranslatable(cfg) == Range(cfg.workloads) \subseteq WorkloadNames

Translated(cfg) ==
  [size |-> cfg.size, missing |-> {}, pods |-> cfg.pods, grounds |-> cfg.grounds,
   sight |-> cfg.sight, routing |-> cfg.routing, models |-> cfg.physics, unreliable |-> {},
   workloads |-> [i \in DOMAIN cfg.workloads |-> cfg.profiles[cfg.workloads[i]]],
   collectors |-> cfg.metrics]

\* build_workloads; the constructors refuse patterns they do not know.
WorkloadsAreBuildable(s) ==
  \A i \in DOMAIN s.workloads :
    s.workloads[i].pattern \in PatternsOf(s.workloads[i].name)

\* The registries refuse what they do not know.  Of pods a negative number makes
\* none.
IsBuildable(s) ==
  /\ s.pods \in Int
  /\ s.routing \in RoutingStrategies
  /\ s.models \subseteq PhysicsModels
  /\ s.collectors \in Seq(CollectorNames)
  /\ WorkloadsAreBuildable(s)
=============================================================================
