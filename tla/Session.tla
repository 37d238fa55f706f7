------------------------------- MODULE Session -------------------------------
(***************************************************************************)
(* What a user runs: a call of simulate, one of the commands of skynetra,  *)
(* a simulation built from layers of the user's own, or the scaling sweep. *)
(* A command goes through its simulations one after the other, with one    *)
(* configuration object that it changes in between.                        *)
(***************************************************************************)
EXTENDS Simulation, ScalingSweep

CONSTANT Requests   \* what may be asked for

\* Layers of the user's own consist of what the code has classes for.
ASSUME LayersAssumption ==
  \A r \in Requests : r.program = "layers" => IsSpecification(r.spec)

\* What passes the schema: a size of no negative numbers, as a range up to one of
\* them is empty like a range up to 0; a list of active workloads; and a section
\* for each workload that makes a profile of its class, save that a pattern the
\* class has no use for is left to the constructor to refuse.
FitsSchema(c) ==
  /\ "size" \in DOMAIN c => c.size \in Seq(Nat)
  /\ "workloads" \in DOMAIN c => c.workloads \in Seq(STRING)
  /\ "profiles" \in DOMAIN c =>
       \A name \in WorkloadNames :
         LET w == c.profiles[name] IN w.name = name /\ (w.pattern \in PatternsOf(name) => IsProfile(w))

ASSUME SchemaAssumption ==
  /\ FitsSchema(DefaultConfig)
  /\ \A r \in Requests :
       /\ r.program \in {"run", "sweep", "compare"} => FitsSchema(r.file)
       /\ r.program = "simulate" =>
            /\ r.size \in Seq(Nat)
            /\ "config" \in DOMAIN r => FitsSchema(r.config)

\* The command line lets only strategies through that there are.
ASSUME RequestsAssumption ==
  \A r \in Requests :
    /\ r.program \in {"simulate", "run", "sweep", "compare", "scaling_sweep", "layers"}
    /\ r.program = "run" =>
         /\ DOMAIN r.options \subseteq {"routing"}
         /\ "routing" \in DOMAIN r.options => r.options.routing \in RoutingStrategies

\* Wherever a pod and a satellite are, they are at some distance, and no two
\* satellites have one id.
ASSUME DistancesAssumption ==
  \A r \in Requests, t \in 0 .. Duration :
    LET AreApart(size, pods) ==
          size \in Nat \X Nat =>
            /\ \A i \in 1 .. pods, s \in Satellites(size) :
                 View(size, t).distance[<< <<"pod", i>>, s>>] \in Nat
            /\ View(size, t).order \in Injection(Satellites(size), Nat)
    IN  IF r.program = "layers" THEN AreApart(r.spec.size, r.spec.pods)
        ELSE \A n \in DOMAIN Plan(r) :
               LET c == Overlay(BaseConfig(r), Plan(r)[n]) IN AreApart(c.size, c.pods)

VARIABLES
  request,
  cfg,        \* the configuration object of the program
  step        \* how many of its simulations have been asked for

sessionVars == <<request, cfg, step>>

Init ==
  /\ request \in Requests
  /\ cfg = <<>>
  /\ step = 0
  /\ InitSimulation
  /\ InitSweep

Refuse ==
  /\ phase' = "refused"
  /\ UNCHANGED <<workVars, metricsVars, spec, runs, graph, version, faulted, snapshot, results>>

\* The arguments and the file are put together and validated.
Configure ==
  /\ phase = "none"
  /\ request.program \in {"simulate", "run", "sweep", "compare"}
  /\ cfg' = BaseConfig(request)
  /\ \/ ~ IsValid(cfg') /\ Refuse
     \/ /\ IsValid(cfg')
        /\ phase' = "configured"
        /\ UNCHANGED <<workVars, metricsVars, spec, runs, graph, version, faulted, snapshot, results>>
  /\ UNCHANGED <<request, step, sweepVars>>

\* One turn of the command's loop, up to the call of run.
Launch ==
  /\ phase = "configured" \/ (phase = "ended" /\ cfg # <<>>)
  /\ step < Len(Plan(request))
  /\ step' = step + 1
  /\ cfg' = Overlay(cfg, Plan(request)[step'])
  /\ \/ /\ IsTranslatable(cfg') /\ IsBuildable(Translated(cfg'))
        /\ Construct(Translated(cfg'))
     \/ ~ (IsTranslatable(cfg') /\ IsBuildable(Translated(cfg'))) /\ Refuse
  /\ UNCHANGED <<request, sweepVars>>

\* from_layers, whose objects have been built by the caller.
FromLayers ==
  /\ phase = "none"
  /\ request.program = "layers"
  /\ Construct(request.spec)
  /\ UNCHANGED <<sessionVars, sweepVars>>

Simulate == NextSimulation /\ UNCHANGED <<sessionVars, sweepVars>>

Sweep ==
  /\ request.program = "scaling_sweep"
  /\ NextSweep
  /\ UNCHANGED <<sessionVars, simVars>>

Next == Configure \/ Launch \/ FromLayers \/ Simulate \/ Sweep

vars == <<simVars, sessionVars, sweepVars>>

\* env.run does not return before the processes have had their turns.
Spec == Init /\ [][Next]_vars /\ WF_vars(Turn /\ UNCHANGED <<sessionVars, sweepVars>>)
-----------------------------------------------------------------------------
\* The settings that a request makes itself.
Asked ==
  CASE request.program # "simulate" -> request.file
    [] request.program = "simulate" /\ "config" \in DOMAIN request -> request.config
    [] OTHER ->
         [size |-> request.size, pods |-> request.pods, routing |-> request.routing,
          workloads |-> [i \in DOMAIN request.workloads |-> WorkloadName(request.workloads[i])],
          metrics |-> <<"network_metrics", "compute_metrics", "physics_metrics",
                        "topology_metrics">>]

\* Those it leaves alone are the defaults.
Setting(field) == IF field \in DOMAIN Asked THEN Asked[field] ELSE DefaultConfig[field]

IsSwitchedOn ==
  /\ request.program # "compare" /\ request.physics
  /\ request.program = "simulate" => "config" \notin DOMAIN request

\* The n-th simulation of a request is the one that would be run for it alone,
\* whatever the ones before it were: a sweep goes through the sizes with one pod
\* and then two, a comparison through the strategies, and all else is as asked,
\* save that the switch for physics turns three models on.
IsAsked(n) ==
  /\ spec.size = IF request.program = "sweep" THEN Scales[(n + 1) \div 2] ELSE Setting("size")
  /\ spec.pods = IF request.program = "sweep" THEN 2 - (n % 2) ELSE Setting("pods")
  /\ spec.routing =
       CASE request.program = "compare" ->
              <<"shortest_path", "backpressure", "geographic_greedy",
                "thermal_energy_aware", "physics_compute_synergy">>[n]
         [] request.program = "run" /\ "routing" \in DOMAIN request.options ->
              request.options.routing
         [] OTHER -> Setting("routing")
  /\ spec.models = Setting("physics") \cup IF IsSwitchedOn THEN SwitchedOn ELSE {}
  /\ spec.collectors = Setting("metrics")
  /\ [i \in DOMAIN spec.workloads |-> spec.workloads[i].name] = Setting("workloads")

\* The collectors are those asked for, and a network collector if none of them is.
ListenersAreComplete ==
  \/ collectors = spec.collectors /\ Contains(spec.collectors, "network_metrics")
  \/ /\ collectors = Append(spec.collectors, "network_metrics")
     /\ ~ Contains(spec.collectors, "network_metrics")

\* Of n things that happened, those that are reported if the collector for them
\* is asked for.
IfCollected(name, n) == IF Contains(spec.collectors, name) THEN n ELSE 0

\* The report tells what became of the packets, and 0 where nothing listened.
ReportIsTrue ==
  /\ NetworkSummary(results) =
       [transmitted |-> Cardinality(HopsMade),
        delivered |-> Cardinality(With({"delivered", "computed"})),
        dropped |-> Cardinality(With(Lost))]
  /\ ComputeSummary(results) =
       [jobs_completed |-> IfCollected("compute_metrics", Cardinality(With({"computed"}))),
        compute_drops |->
          IfCollected("compute_metrics", Cardinality({i \in With(Lost) : IsComputePacket(packets[i])}))]
  /\ PhysicsSummary(results).physics_caused_drops =
       IfCollected("physics_metrics", Cardinality(With({"blamed"})))
  /\ TopologySummary(results).topology_updates = IfCollected("topology_metrics", version)

\* A configuration is refused before anything of it has run, or each of its
\* simulations is built in full.  What listens is what was asked for, and a
\* network collector exactly if there is none among it, and so is what is
\* reported in the end.
AskedIsBuilt ==
  /\ phase = "refused" => spec = <<>>
  /\ spec # <<>> =>
       /\ request.program # "layers" => IsAsked(step)
       /\ ListenersAreComplete
  /\ phase = "ended" => ReportIsTrue
=============================================================================
