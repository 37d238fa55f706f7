------------------------------ MODULE MCSession ------------------------------
(***************************************************************************)
(* Small constellations of all shapes, every kind of workload, routers,    *)
(* models and generators that fail, and requests to every program, valid   *)
(* ones and others.                                                        *)
(***************************************************************************)
EXTENDS Session

\* Of two satellites one is in sight of a ground station or of the next one at
\* even times, the other at odd times; distances change as well.  As long as numbers
\* have one digit, ids are ordered by number.
MCView(size, t) ==
  [sight |-> {l \in Satellites(size) \X Satellites(size) : (l[1][3] + t) % 2 = 0},
   above |-> {l \in Satellites(size) \X {<<"gs", 1>>} : (l[1][2] + l[1][3] + t) % 2 = 0},
   distance |-> [l \in {<<"pod", i>> : i \in 1 .. 3} \X Satellites(size) |->
                   (l[1][2] + l[2][2] + l[2][3] + t) % 3],
   order |-> [s \in Satellites(size) |-> 10 * s[2] + s[3]]]

Profile(name, pattern) ==
  [name |-> name, pattern |-> pattern, interval |-> 1, rounds |-> 2, on |-> 1, off |-> 1,
   burst |-> 2, gap |-> 1, idle |-> 1, sources |-> {<<"gs", 1>>}, aggregator |-> <<"pod", 2>>,
   type |-> name, flops |-> 0]

Training == Profile("ai_training_sync", "all_reduce")
Inference == Profile("inference_query", "poisson")
Federated ==
  [Profile("federated_learning", "federated") EXCEPT !.type = "fl_gather", !.flops = 1]

MCDefaultConfig ==
  [size |-> <<1, 2>>, pods |-> 1, grounds |-> 1, sight |-> FALSE, routing |-> "shortest_path",
   physics |-> {}, workloads |-> <<"ai_training_sync", "inference_query">>,
   profiles |-> [ai_training_sync |-> Training, inference_query |-> Inference,
                 federated_learning |-> Federated],
   metrics |-> <<"network_metrics", "compute_metrics", "topology_metrics">>, unknown |-> {}]

MCScales == << <<1, 1>>, <<2, 1>> >>
MCSeeds == <<42, 43>>
MCModes == <<"disabled", "thermal_only", "full_physics">>

Layers(size, missing, pods, models, unreliable, workloads, listeners) ==
  [program |-> "layers",
   spec |-> [size |-> size, missing |-> missing, pods |-> pods, grounds |-> 1,
             sight |-> FALSE, routing |-> "custom", models |-> models,
             unreliable |-> unreliable, workloads |-> workloads, collectors |-> listeners]]

Arg(name, words) == [name |-> name, words |-> words]

Call(size, routing, workloads, physics) ==
  [program |-> "simulate", size |-> size, pods |-> 1, grounds |-> 1,
   routing |-> routing, workloads |-> workloads, physics |-> physics]

Command(program, file, physics) ==
  [program |-> program, file |-> file, physics |-> physics, options |-> <<>>]

Counting == <<"network_metrics", "compute_metrics", "topology_metrics", "physics_metrics">>

MCRequests ==
  {\* Calls of simulate.
   Call(<<1, 3>>, "backpressure", <<Arg("inference", {"infer"})>>, TRUE),
   [Call(<<2, 2>>, "backpressure", <<Arg("federated", {"fed"})>>, TRUE) EXCEPT !.pods = 3],
   Call(<<1, 1>>, "geographic_greedy", <<Arg("gossip", {})>>, FALSE),
   Call(<<>>, "backpressure", <<Arg("training", {"train"})>>, FALSE),
   Call(<<1, 1>>, "backpressure", <<>>, TRUE)
     @@ [config |-> [metrics |-> <<"compute_metrics">>, workloads |-> <<>>]],
   Call(<<1, 1>>, "geographic_greedy", <<>>, TRUE) @@ [config |-> <<>>],
   \* Commands.
   Command("run", [metrics |-> <<"network_metrics", "network_metrics">>, sight |-> TRUE], FALSE),
   [Command("run", [workloads |-> <<"federated_learning">>, pods |-> 1], TRUE) EXCEPT
      !.options = [routing |-> "geographic_greedy"]],
   Command("run", [workloads |-> <<"ai_training_sync">>, pods |-> 3], FALSE),
   Command("run", [metrics |-> <<"latency_metrics">>], FALSE),
   Command("run", GenConfig(TRUE), FALSE),
   Command("run", [unknown |-> {"plugins"}], FALSE),
   Command("run", [profiles |-> [MCDefaultConfig.profiles EXCEPT
                                   !.inference_query.pattern = "federated"]], FALSE),
   Command("sweep", [workloads |-> <<>>, physics |-> {"doppler"}, pods |-> 3], TRUE),
   Command("compare", [workloads |-> <<>>, pods |-> -1], FALSE),
   Command("scaling_sweep", <<>>, FALSE),
   \* Simulations of objects the caller has made.
   Layers(<<2, 2>>, {<<"sat", 0, 1>>}, 2, {}, {"router"},
          <<[Training EXCEPT !.rounds = 1]>>, Counting),
   Layers(<<2, 2>>, {<<"sat", 1, 0>>, <<"sat", 1, 1>>}, 2, {"custom"}, {"physics"},
          <<[Inference EXCEPT !.pattern = "on_off", !.on = 2]>>, Counting),
   Layers(<<1, 3>>, {}, 3, {}, {"workload"},
          <<[Training EXCEPT !.pattern = "parameter_server"]>>, Counting),
   Layers(<<1, 2>>, {}, 1, {}, {},
          <<[Inference EXCEPT !.pattern = "bursty", !.type = "telemetry"],
            [Inference EXCEPT !.pattern = "on_off", !.on = 0]>>, Counting)}
=============================================================================
