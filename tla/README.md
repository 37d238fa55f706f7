# A TLA+ model of SkyNetra

SkyNetra simulates a satellite constellation as a network: nodes (relays in orbit, pods in orbit that
compute, ground stations) exchange packets along inter-satellite and ground links, while the constellation
moves, satellites overheat or fail, and routing engines decide hop by hop. The program is a discrete-event
simulation on SimPy. Every activity of a run (each packet, each pod's compute server, the topology loop, the
physics loop, the workload, the metrics loop) is a SimPy process, a Python generator that runs alone until it
yields. There is no parallelism, but there is a good deal of interleaving: a packet that waits for a link, or is
in flight on it, comes back to a graph, to fault flags and to queues that other processes have changed.

This directory holds TLA+ specifications of the parts of the program where that matters, TLC configurations
that check them on small constellations, and proofs, checked by TLAPS, that the main invariants hold for
constellations of every size.

Contents: [the system](#the-system), [the modules](#the-modules), [the runs](#the-runs),
[the proofs](#the-proofs), [what the models found](#what-the-models-found),
[what is not modelled](#what-is-not-modelled), [the plan](#the-plan).

## The system

Paths are relative to `src/skynetra/`; "engine" is `orchestration/engine.py`.

### Components

| component | state | operations | talks to | what is hard about it | what makes it correct |
|---|---|---|---|---|---|
| packet forwarding (engine, `_forward_packet`, `_deliver`, `_drop`) | per packet: current node, next hop, hop count | publish, start, route and dequeue, request link, transmit, propagate, accept or be refused, deliver, drop | nodes, links, router, bus | three yields per hop, between which graph, faults and queues change; nine exits | every packet ends once; every drop has a cause; counters agree with fates |
| link resources (engine) | one `PriorityResource` per directed link, made on first use | request, grant, release | forwarding | the release is an event of its own: a request can come before it is processed | one packet at a time; order of priority and arrival |
| compute service (engine, `_compute_loop`; `domain/nodes/pod.py`) | token store, task queue | token on delivery, take task, finish | forwarding, pods | tokens and queue are two structures that must agree | every delivered task is executed |
| nodes (`domain/nodes/`) | bounded queue, counters, fault flag, degradation | `process_packet`, `forward_packet`, `dequeue_task`, `record_compute`, `apply_physics` | forwarding, physics | the queue is filled and drained by different handlers | depth and counters say what is true |
| run of a simulation (engine, `from_spec`, `from_layers`, `setup`, `run`) | clock, suspended processes, number of calls | construct, run, resume the next process, raise, finish | all of the below | which exceptions end a run; `run` called again with the processes that were left | loops keep their beat; runs end; results are of the end |
| topology loop (engine, `update_topology`, `_build_graph`; `domain/topology/`) | graph, next-hop tables | rebuild, announce | router, bus | replaces the graph under packets in flight; not guarded against exceptions; shapes of constellations that are not whole | routers never use an edge that is gone; links lead both ways; satellites and pods hold together |
| physics loop (engine; `engines/physics/`) | temperature, dose, battery, shifts and penalties of links | tick: models in turn, merge, apply to nodes and edges | nodes, graph, bus | partial failure of a tick; fault probabilities that are set and never cleared | a node is faulted exactly when the models say so |
| event bus (`foundation/eventbus.py`) | subscriber table, dispatch cache, sequence counter | subscribe, unsubscribe, clear, publish, publish_async, has_subscribers | everybody | callbacks may re-enter; the cache must never be visible | who is notified, and in which order, depends on the table only |
| shortest-path router (`engines/routing/shortest_path.py`) | next-hop tables | precompute, select, live search | engine, networkx | tables ignore faults and penalties, the search does not | hops are usable; gives up only if cut off; routes are shortest and simple |
| backpressure router (`engines/routing/backpressure.py`) | cached operational view | filter the neighbours, select by delay, load and penalty | nodes, networkx | cache key; filters that are void when nobody is left | hops are usable; turns back or repeats itself only for want of anything better |
| geographic, thermal-energy, synergy and energy-aware routers (`engines/routing/`, `src/extensions_examples/`) | none | select by distance, or search by a cost with physics in it | nodes, networkx | local minima; costs read afresh at every node | hops are usable; loops at local minima only, or not at all |
| workloads (`engines/workload/`) | local variables of a generator: pods, round, window, burst | all-reduce, parameter server, federated rounds; Poisson, on-off and bursty queries | engine | lists of pods that grow stale; order within a round | every round is complete, and its broadcasts come after its gathers |
| metrics (`orchestration/metrics/`) | tallies | one callback per event type, summary, snapshot | bus, nodes | base and derived class of an event; two collectors of one name; none asked for | tallies agree with the packets' fates |
| configuration and interface (`interface/`) | one configuration object per command | load, overlay, enable physics, translate, build | engine | loops that change one object; refusals at three levels; switches that do not reach a given configuration | each simulation is the one that was asked for, or none |
| scaling sweep (`src/examples/scaling_sweep.py`) | tasks, pool, results by index | hand out, put down, aggregate | configuration, engine | workers finish in any order | rows are those of the serial loop |
| results (`orchestration/results.py`) | summaries | typed views, report, plots | interface | collectors that were not there | reports what happened, 0 where nothing listened |
| orbit and math (`domain/orbit/`, `foundation/math_utils.py`) | none | positions, distances, elevations | topology | floating point | - |

### How a packet travels

A workload calls `publish_packet`, which spawns `_forward_packet`. The process asks the source node to accept
the packet (`process_packet`: fault flag, then capacity, then the packet is queued). While it has hops left it
asks the router for the next hop, checks the edge, checks that a pod is entered only as the destination, takes
a packet out of the relay's queue (`forward_packet`), requests the link, transmits, releases the link,
propagates, and asks the node at the other end. At the destination `_deliver` has it accepted and, at a pod,
puts a token into the pod's store, which wakes `_compute_loop`. All other exits call `_drop`, which decides by
the fault flag of the node whether the drop is a `PhysicsInducedDropEvent`.

## The modules

| module | models | lines |
|---|---|---|
| `PacketLedger` | the promise: a published packet is forwarded at most so many times, then ends, once | abstract specification |
| `Forwarding` | packet forwarding, links, nodes' queues and counters, compute service, what the loops change under them | component, composed |
| `EventBus` | the bus | component |
| `ShortestPathRouting` | the router, with an engine that follows it | component, composed |
| `RoutingEngines` | the four other strategies beside the shortest path, extending `ShortestPathRouting` | component, composed |
| `BackPressureRouting` | the router, with an engine that follows it | component, composed |
| `PhysicsTick` | the physics models and their orchestrator, the engine's physics loop, the physics collector | component, composed |
| `TopologyBuilder` | the edges of the graph | operators |
| `Workloads` | the generators of traffic | component |
| `Metrics` | collectors, aggregator, typed views of the results | component |
| `Simulation` | one simulation from construction to results | composes `Workloads`, `Metrics`, `TopologyBuilder` |
| `Configuration` | schema, translation, registries, the programs that ask | operators |
| `ScalingSweep` | tasks, pool of workers, rows | component |
| `Session` | a request, carried out | composes `Simulation`, `Configuration`, `ScalingSweep` |
| `MCForwarding`, `MCEventBus`, `MCShortestPathRouting`, `MCRoutingEngines`, `MCBackPressureRouting`, `MCPhysicsTick`, `MCSession` | the small instances for TLC | |
| `ForwardingProofs`, `EventBusProofs`, `RoutingProofs`, `BackPressureProofs`, `PhysicsProofs`, `TallyProofs`, `SessionProofs` | theorems | |
| `Recursion` | induction and recursion over the naturals, for the proofs | lemmas |

Operators whose comment starts with "Fault:" are not part of the specification. Each is a variant of the
definition below it, with the mistake a change to the code could plausibly make, and is kept to show that some
property would notice.

### `Forwarding`

An action is the code between two yields of a process. `stage[p]` is the yield where the process of packet `p`
is suspended:

| `stage` | the process is | next action | code |
|---|---|---|---|
| `unpublished` | not there | `Publish` | `publish_packet` |
| `spawned` | scheduled | `Start`: source accepts or refuses, then `Dispatch` | engine 605-714 |
| `waiting` | at `yield req` | `PassOn` of its link, or another packet's `Request` | engine 728-731 |
| `sending` | at the transmission timeout, holding the link | `FinishSending` | engine 732-736 |
| `flying` | at the propagation timeout | `Arrive`: deliver, refuse, or accept and `Dispatch` | engine 738-763 |
| `ended` | finished | - | |

- `Dispatch` is the whole stretch from the loop test to the link request: hop limit, routing decision, edge
  check, pod check, dequeue, request. `Usable` holds the edges the engine accepts, whatever the router says;
  the router is arbitrary, so the model stands for all routing engines, and for one that answers None or raises.
  `no_route`, `routing_error` and `pod_not_transit` are one outcome, `unrouted`, because the code does the same
  for all three.
- `Request` has the three cases of `simpy.Resource`: the link is free and is granted; it is free but has not
  been passed on since its release, and the head of the queue, be it the new request or an older one, gets it;
  it is held. `PassOn` is SimPy's processing of the release event. `before[p]` records who was queued when `p`
  came: with the priorities it gives the order of the queue, with no clock and no counter.
- `process_packet` is `Accepts` (fault flag, capacity), `Accept`, `Enqueued`, `Refuse`. `forward_packet` of a
  relay pops the oldest packet, which need not be the one being forwarded; the model does the same.
- `TakeTask` and `FinishTask` are `_compute_loop` on either side of its timeout. A token may in principle meet
  an empty queue; `PodsKeepTheirWork` shows that it does not, and that the server neither loses a task nor makes one up.
- `TopologyUpdate` and `PhysicsTick` replace the graph and the fault flags, by anything the constants allow, at
  any moment. Link resources survive.

Abstracted: durations (any pending process may go next, a superset of the timed schedules), sizes and payloads,
the end of the run, and link bandwidth of zero (the transmission time is then zero, which is one of the
schedules). `Ledger` is the refinement mapping to `PacketLedger`.

### `EventBus`

One action per operation, plus the loop of `publish` taken apart: `Publish` takes or makes the list, `Call`
invokes the next entry, `Return` ends the callback, `EndPublish` ends the loop. While a callback runs
(`ClientRuns`) it may do anything client code may do, so publications nest; `frames` is the call stack. The
subscriber lists are a set of entries; the order in which a list is worked through is that of `(priority, seq)`,
as in the sort of the code. `publish_async` is a process that publishes when it is resumed, never inside of a
callback. A callback that raises is logged and the loop goes on: that is `Return`.

### `ShortestPathRouting`

`Tables` is `_precompute_next_hops`, `Searched` is `_dijkstra_next_hop`, `Select` is `select_next_hop`, and
`HopsToPod` is `_patch_pod_targets`. networkx is external: `FirstHops` is the set of first hops of the shortest
paths, and which of several equally short paths networkx returns is left open. The tables therefore hold sets,
from which `Select` picks. Around the router, `Send` and `Arrive` are the engine's loop for one packet at a
time, without queues and links (they are in `Forwarding`), and `TopologyUpdate` and `PhysicsTick` change graph,
tables, penalties and faults. Weights are integers; the modes `latency`, `hops` and `capacity` differ in the weights only
(`Graphs` gives the weights of the mode; overrides apply to the latency mode, the others are the case of no penalties).
`trail` remembers where the router was asked since the world last changed.

### `RoutingEngines`

A simulation has one `strategy`. All are driven by the actions of `ShortestPathRouting`, which take the answer of the
router as a parameter. The greedy router takes the destination if it is a neighbour, else the neighbour closest to it if that is
closer than where the packet is, else the link with the least delay. The three others call networkx on the operational
nodes, pods included, with `Cost`: delay, penalty, and a toll of the node the link leads to. The tolls are the formulas of the
code with the default coefficients in integers: `Condition` says in which units. Two of the three take a direct
link whatever it costs (`TakesDirectLink`). Every node reads the conditions afresh, and `Traffic` changes those that
depend on queues between any two hops; `TickPhysics` changes the rest.

### `BackPressureRouting`

`Candidates` is the chain of filters of `select_next_hop`, each a use of `Prefer` (what passes, or all if nothing
does), in the order of the code; `Select` takes those of the least weight, then of the fewest hops, and leaves
open which of several it is. `DecisionEdges` is `_operational_view`: the cached edges if the key still fits. The
key of the code holds the identity of the graph, where `Key` has its edges: no step changes the edges of a graph, and
a rebuild empties the cache, so the two fit in the same states. The code caches the tables of the view with it; `Tables`
is a function of the view's edges, which comes to the same. `load` is the `total_weight` of a link: queues,
backlog and penalties are other components', so `WorldChange` lets it change at any time. Engine and packet are as
in `ShortestPathRouting`, but `path` is the packet's own `path_history`, which the filters read.
`changedAt` is for the properties: the length of `path` when the world last changed.

### `PhysicsTick`

`Tick(k)` is a turn of `_physics_tick_loop` in which the `k`-th model raises, or none. A tick contains no yield, so it
is one action: `Advance` is what the models asked so far do to themselves (`PowerModel` keeps charges, `DopplerModel`
the last distances), `UpdateNodes`, `UpdateLinks` and `Collect` are the application of the merged results and
the `PhysicsTickEvent`; a discarded tick has `Advance` only, and publishes an `EngineErrorEvent`. All models see the nodes
as they were before the tick, so their updates can be merged in any order: thermal and radiation model write the
same key, but the same value. Of the formulas there is direction and bound: a temperature goes
some way towards its equilibrium (any way, which covers every time constant), doses grow, a battery loses `Loss` per unit
it delivers. `latched` are the nodes whose `fault_probability` is 1; no built-in model writes another value.
`Fragile` models are a user's; they raise or report nothing. `overheated` and `measured` are
history variables for the properties.

### `Session`, `Simulation` and the modules below them

`Session` is a program of the repository: `simulate`, the commands `run`, `sweep` and `compare`, `from_layers` with
objects of the user's own, or the scaling sweep. A request is one of `Requests`.

| action | code |
|---|---|
| `Configure` | the arguments and the file become a `FullConfig`, or are refused (`SimulateConfig`, `LoadBaseConfig`, `IsValid`) |
| `Launch` | the next turn of the command's loop: fields of the configuration object are assigned, it is translated, the registries build from it or refuse (`Plan`, `Translated`, `IsBuildable`) |
| `FromLayers` | `from_layers` |
| `Run` | `setup`, and one process per loop and workload |
| `TopologyUpdate`, `PhysicsTick`, `Snapshot`, `WorkloadTurn` | the turn of a process between two of its timeouts |
| `Finish` | `env.run` has reached the end; results |
| `Transmit`, `Deliver`, `Drop`, `Compute` | what `_forward_packet` and `_compute_loop` publish about a packet |
| `TakeTask`, `Place`, `AggregateRows` | the pool of the scaling sweep |

- The clock is `now`, and `due[k]` is when the timeout of process `k` ends. Processes that are due at the same time
  take turns in any order. At the end of the simulation SimPy stops before the processes that are due then (`Resumes`).
- `Raise` is an exception that leaves `env.run`: of all that the engine calls, only `update_topology` is not
  guarded. `run` can be called again afterwards; it starts every process anew, and those that are left run on.
- `Workloads` has one action per stretch of a generator. The registry is looked at once (`Begun`). A round is all its packets,
  in the order of the loops. An on-off generator whose windows have no length only pauses, from its first yield on
  (`inference.py:102-110`); one that neither works nor pauses would never yield, and is left out.
- `Metrics` has, for each collector, what it subscribes to and what each callback counts. `Calls` is the bus: one
  call per subscription to a class of the event or a base of it, which is what `EventBus` shows it to do. `ticks` stands for
  all that the physics collector adds up at a tick, which is in `PhysicsTick`.
- `TopologyBuilder` says which edges there are. Geometry is a constant `View(size, time)`: what is in sight, what is
  high enough, how far pods are, and `order`, how the ids of the satellites compare as strings: of equally distant satellites a pod takes
  the one whose id comes first (`engine.py:446`), and `sat-10-0` comes before `sat-2-0`.
- Packets have fates, not routes: on the way they may be dropped by any node, for which `Forwarding` gives the reasons.
- `Configuration` keeps the fields that select parts: sizes, pods, strategy, models, workloads, collectors. Fields that are
  merely passed on (rates, capacities, seeds of simulations) are left out. A call of `simulate` without a `config` is a request without that
  field; an empty dictionary is a `config` and makes the other arguments void (`api.py:87`). A negative number of pods builds none.

## The runs

| run | question | instance | states |
|---|---|---|---|
| `forwarding` | do links stay exclusive and fair, and is there always one to go next, do pods keep what they accept, do queues and counters say what is true, are tasks executed? Does the engine keep the ledger, with its liveness? | ground, two relays, two pods; two topologies; faults of a relay and of the destination; three packets of different priorities; capacities 1 and 2 | 167 000 |
| `phantom_relay` | do relay queues drain, as documented? (no) | one topology, no faults | |
| `phantom_pod` | is every delivered task executed? (not if the pod sends) | one topology, no faults, fair | |
| `event_bus` | is the cache invisible, is the order determined? | a class and a derived class, two callbacks, two priorities, nesting 2 | 2 700 000 |
| `routing_engines` | are the hops of five strategies usable, do they give up only when cut off, where do they loop? | four satellites, a pod, two ground stations; three graphs, two sets of penalties, three of faults, three conditions | 69 000 |
| `ping_pong` | are shortest paths simple under faults, as documented? (no) | the shortest path only | |
| `pod_transit` | are pods kept out of routes, as documented? (no) | the shortest path only | |
| `backpressure` | are hops usable, are U-turns, repetitions and pods the last resort, do intact rings deliver? | four satellites, three ground stations, a pod under two satellites; a ring and, with the pod elsewhere, a line; two loads; no fault, a station, two satellites of the ring | 570 000 |
| `ring_lock` | is a packet kept from locking into a loop, as documented? (no) | one graph, one load, one fault | |
| `simulation` | is what was asked for what is built, do collectors agree with the packets, do loops keep time, are rounds complete, do graphs hold together, do runs end, is the sweep independent of its workers? | twenty requests, to every program; constellations of one to four satellites, with some missing; up to three pods; all patterns of traffic; routers, models and generators that raise | 146 000 |
| `physics_tick` | does a fault have a reason, do batteries balance, are shifts, penalties and counts of one tick? | a satellite and a ground station, a link that comes and goes; thermal, radiation, Doppler, a custom model that may raise, power; four ticks | 111 000 |
| `misblamed` | are the radiation faults that are counted due to radiation, as documented? (no) | the built-in models | |

What each property says is in the comment above it. Deadlock is checked in all runs but `simulation`: the loops of the
engine never stop, so no state is one where nothing can happen. A session does stop, when its last simulation has
ended, has been refused, or has raised and run as often as it may.

### Bounds, and why they are enough

- Three packets: two to compete for a link, the third to come in between release and grant. A link queue of two
  with a holder is reached. `MaxHops = 3` lets a packet cross the chain, go back once, or run into the limit.
- Relay capacity 1 lets a single stranded packet block a relay. Pod capacity 2 lets a pod refuse.
- Two of the packets come from the ground station and one, more urgent, from another pod; all want the link between the relays.
  In the second topology this link is gone, so that a rebuild can cut off a packet that waits, is sent or flies.
- Bus: `MaxSeq = 2` subscriptions between two calls of `clear` make two entries on one class or on both; `clear`
  resets the counter, so there is no bound on the number of subscriptions in a run. `MaxDepth = 2` nests one
  publication in another, of the same class or of the other. `MaxScheduled = 1` pending `publish_async` per class.
- Routing: the weights are chosen so that the lightest path is not the one with fewest hops, that a fault makes a
  detour through a node whose table points back, and that in `Torn` only the pod connects the halves. `MaxHops`
  of 6 exceeds the longest simple path that is taken. `Infinity` is more than the heaviest link, penalty and toll included, times
  the number of nodes (`InfinityAssumption`), as `math.inf` is.
- Other strategies: Early, Later and Torn have minima for the greedy router, with and without faults; Calm, Harsh and Busy
  make each toll matter on some detour. A deficit of 19 is over the threshold of the energy-aware router.
- Backpressure: with c failed the ring becomes a line, at whose end are two stations, the least number that locks (one
  alone is excluded as the node the packet came from). There `MaxHops` of 12 exceeds the ten entries of the shortest lock. The run of
  `backpressure` has 14, twice the number of nodes less two, which is what `IntactRingsDeliver` asks for. With a station failed the ring is
  intact, in the line and without b and e it is not, so that both sides of the premise occur.
- Physics: temperatures 0 to 3 are normal, throttling, critical and over the fault threshold, in the order of the default
  configuration. Four ticks are enough for a discarded one before, between and after applied ones, for a link to
  be there, away, and back, and for a node to latch and to cool down. `MaxDose` is where doses stop being distinguished.

- Sessions: `Duration = 4` and `TopologyInterval = 2` give one topology update before the end and one at the end, which
  must not happen; three turns of the other loops; two rounds. `Waits = {1, 2}` lets a query come with another process or alone. `MaxRuns = 2`
  repeats `run` once. `Followed = 2` packets per simulation have fates, with one hop each (`MaxHops`), enough for every pair of
  fates and for a count that is wrong by one; the others stay under way, and rounds are complete or not by what is published.
  Two sizes, the least with a ring across planes and the least of all, stand for the lists of sizes of the sweeps, `Workers = 2`
  for the pool, and two seeds and three modes make twelve tasks, which finish in every order two workers can produce.
- Requests: every program and pattern of traffic, a configuration that overrides all else, also an empty one, words of workloads, an unknown
  section, an unknown collector, an unknown workload, a pattern of another workload, a size that is none, a
  generated file, collectors twice or not at all, a strategy given on the command line,
  physics with a comparison, fewer pods than none, on-off windows of some length and of none.

The theorems below hold without any of these bounds.

### Fairness

`FairSpec` asks for weak fairness of `Start`, `FinishSending`, `Arrive`, `PassOn`, `TakeTask` and `FinishTask`, one
packet, link and pod at a time. Each stands for an event in SimPy's queue, with a finite delay, and SimPy processes events
in order of time: in a run that is long enough every one of them is processed, and once scheduled none is withdrawn. Nothing is asked of
workloads, topology and physics: they may fall silent. A packet in `waiting` has no fairness of its own; that it
gets its link follows from the fairness of the packets before it, and only because there are finitely many
packets: a stream of urgent ones may starve it.

`Session.Spec` asks for weak fairness of `Turn`, some process resumed or the end reached, and of nothing else: `env.run` is a loop that
does not return before. `RunsEnd` then needs that every turn moves its process on in time, or ends it: a loop that did not wait would
keep the clock where it is for ever.

## The proofs

All theorems are proved for every set of nodes and packets, every topology, every fault set and every bound, from the
`ASSUME`s of the modules, which TLC evaluates on every run:

- node types are disjoint, headers are typed, the hop limit is positive, edges connect nodes, links of the backpressure
  router's graphs lead both ways;
- `WeightsAssumption`: weights are positive, penalties are not negative. The latency of a link, one hop, and the inverse of a capacity
  are positive; a penalty is the size of a relative shift;
- `InfinityAssumption`: no path weighs as much as `math.inf`;
- `TimesAssumption`: durations, intervals and waits are positive whole numbers;
- `DefaultsAssumption`, `SchemaAssumption`, `RequestsAssumption`, `LayersAssumption`: the default configuration has every field, and a
  request has passed the schema and the argument parser. What the schema lets through and a constructor refuses is left in;
- `ScalesAssumption`, `ListsAssumption`, `DistancesAssumption`: sizes are pairs of numbers, the lists of the scaling sweep name nothing twice,
  pods are somewhere, ids of satellites are distinct.

**`ForwardingProofs`.** The strengthened type invariant is `TypeInv = TypeOK /\ OnLink`: a packet that is waiting,
being sent or flying is on a link of some topology, is bound for a node it may enter and has hops left, and has no fate yet. Without `OnLink`
the type of `holder` (a function of links) and of `hops` (at most `MaxHops`) is not inductive. `Start` and `Arrive` are long actions, so
their effect on the books is summarised first (`Handled`: node `n` refuses `p`, or accepts it and delivers, strands or
passes it on); the invariants are then proved from the summaries.

| theorem | property | argument |
|---|---|---|
| `TypeCorrect` | `TypeOK` | one lemma per action |
| `LinksServeWhoeverWaits` | `LinksServe` | `QueueInv`: exclusion, where the three cases of `Request` and `PassOn` each move one packet and one holder; and `QueueOrder`, of two requests for a link one was there before the other, and so were all that were before that one. Every step is a `QueueMove`, which keeps this. Of the most urgent requests, finitely many, the one with the fewest before it is the head |
| `LinksServeInOrder` | `NoUnfairOvertaking` | only a head is granted |
| `RelayDepthIsStranded`, `RelayDepthIsMonotone` | `BacklogIsStranded`, `BacklogNeverShrinks` | each acceptance by a relay adds an entry, and each departure takes one out, in the same step |
| `PodsKeepWhatTheyAccept` | `PodsKeepTheirWork` | `PodBacklog`: deliveries add token and entry, emissions an entry only, `TakeTask` removes one of each. `PodWork`: what is taken out of the queue is served, what was served is computed, and nothing is delivered but at its destination |
| `EveryStepCounts` | none; a step that changes a packet lowers `StepsLeft` | four for each hop that is left, and the rank of the stage. An acceptance may put a packet up from flying to waiting, two ranks, but costs a hop |
| `CountersBalance` | `BooksBalance` | as above, per counter |
| `BlameIsExplained` | `DropsAreExplained` | a relay that was full stays full: its depth is what is stranded there (`RelayBacklog`). Hops are counted and the limit is applied in one step (`Handled`), from less than the limit (`OnLink`) |
| `ImplementsLedger` | safety part of `PacketLedger` | initial states map to initial states; every step maps to a step or a stutter |

**`EventBusProofs`.** The inductive invariant is `IInv`: types, `CacheCoherent` (a cached list equals what would be
computed now), every number in the table is below the counter, and `OrderIsTotal`. It gives `TypeCorrect`, `QueriesAreTruthful`,
`OrderIsDetermined` and `RegisteredAreNotified`. `CacheCoherent` is what the code never states: each operation on
the table empties the whole cache.

**`Recursion`.** The provers can neither instantiate a theorem about operators nor unfold a recursive function. The way around both:
`ByInduction` is stated for sets of numbers (the induction hypothesis becomes membership), `RecursionHolds` says that a set, a start and
a function from sets to sets have a sequence that follows them, and `MinIsLeast` that a set of numbers has its `Min`. A recursive
`LET` is a `CHOOSE`; once a function that satisfies the equation is exhibited, the chosen one does. This is how the searches below are proved
to compute what they should.

**`RoutingProofs`.** Usable hops first. `HopsAreSound` and `EveryHopIsSound`: no strategy names a faulted node or an edge that is gone
(`AnswersAreUsable`). The invariant is `EnginesInv`: the world is one of the constants', and a flying packet has a next hop over a link.
This does not look at path lengths. The rest does:

- `LengthsAreDistances`: what `Lengths` computes after as many rounds as there are nodes, less one, is the distance: no edge shortens it by
  more than its weight, and some edge by as much. Rounds only decrease (`RoundsDecrease`), each settles one more node as long as one is not settled
  (`OneMoreSettles`), and so all are settled in time (`RoundsSettle`).
- `TableRoutesComeNotBack`, `SearchedRoutesComeNotBack`, `GreedyComesBackByMinima`: a way that comes back to a node would have to climb.
  `Left(t)` is what is left of the way to `t`, as each strategy sees it; `WaysInv` says that it falls along the trail, the next hop included
  (`Descends`), except at nodes of `Exempt(t)`: the minima of the greedy router, and a pod, which only the first node can be. For the shortest path with penalties
  and without, to pods and to other nodes, the argument differs; a missing table entry, which the search stands in for, counts as `Infinity` plus what the search sees.
  Mixed decisions are excluded, rightly (`ping_pong`).
- `TableHopsAreShortest`: the property compares with `Shortest`, which walks every simple path. `IsPotential` says of a function on the
  nodes that may be passed what `LengthsAreDistances` says of lengths, and `LeftToPodFalls` of what is left to a pod. No walk is shorter than a potential (`WalksAreNoLess`, by the
  number of nodes left), and some simple walk is as short (`WalksAreNoMore`, by the potential: it falls along the walk, so the walk comes back to no node).
- `GivenUpIsCutOff`: where a search finds nothing, its lengths are infinite; they grow by at most the heaviest link at each edge of
  a walk, and a simple walk has fewer edges than there are nodes, so a walk would make them finite (`WalkedIsNear`). Each strategy has lengths of its own for this.

**`BackPressureProofs`.** `HopsAreSound` says the same of the backpressure router, for any age of its cached view. The inductive
invariant is `IInv`: types, `ViewMatchesKey` (the cached edges are the operational edges of the graph and faults in the
key), `UnderWay` (a flying packet has its next hop, its destination and room in its path, and has not been at its destination) and
`FaultsAreGiven`. `ResortsAreLast` needs to know that the filter against dead ends never removes one neighbour
and leaves another: links lead both ways, so all neighbours of a node reach the same nodes, by way of it (`NeighboursReachTheSame`). That
in turn needs that the search in breadth finds whatever can be reached, within its bound: as long as it is not closed, each round adds a node (`NearIsReached`).

`RingsDeliver` is `IntactRingsDeliver`. A ring (`IsRingOf`) is a set of satellites of which each has two of the others beside it, that falls into no two
parts, and where all else hangs: pods under any of them, stations under one each. Its size, the queues and the ties are arbitrary. The inductive
invariant is `RingInv`, that is `IInv` and `OnRing`: the packet has come along an `IsWalk`, and so it will have where it is going. On such a way

- of any two consecutive nodes one is new (`WalkDoesNotLock`: so no link is taken twice in one direction), which bounds its length by
  twice the number of nodes seen (`WalkIsShort`), none of them the destination;
- the satellites seen are an arc of the ring (`IsArc`), and the packet is at its growing end or at a station under it. At the end of an arc that
  is not the whole ring there is a satellite that is new (`ArcGoesOn`), so a station is entered once and left at once; and when the arc
  is the whole ring (`ArcCloses`), the packet has been next to the destination, and whoever is next to it delivers (`NextToDestination`);
- a packet in a station came from the satellite it goes back to, so it is stuck only where it started, if nothing is linked there (`WalkIsNotStuck`).

Both premises are needed: without the ring there is `ring_lock`, and in a ring whose pod is linked to nothing the packet goes round.

**`PhysicsProofs`.** `IInv` is types and five parts. `Explained` adds to `FaultsAreExplained` why the probability is set, for which the
proof needs that doses never shrink; `Matched` adds that without a Doppler model no link is shifted; `Remembered` says that the model's
sample of a link seen at the last tick is its distance then. The lemmas on `Min`, `Max` and the battery
come first. All seven properties of the run are theorems; the two about steps (`BatteriesAreHonest`, `ShiftsAreOverOneTick`) follow from
`IInv` and the fact that an applied tick is one of all models (`AppliedTick`).

**`TallyProofs`.** `TalliesAreRight`: for all requests, views, durations, numbers of packets and exceptions, every collector agrees with the
fates of the packets (`TalliesMatchFates`). The inductive invariant is `TallyInv`: the packets are a finite sequence of headers, tallies are
functions to naturals, the pods of every generator are finitely many, and the tallies match. The argument has three parts. `CallsAreOnce`: among the
subscriptions of a collector no event finds two. `EventAdds`: so an event adds one to one counter, or nothing. `Shift` says
by how much a step changes the number of packets with each fate; every step that publishes an event of a class shifts
the fates by what the event adds (`FateShifts`, `TransmitShifts`), and a step that publishes none shifts nothing, new
packets being without fate (`WorkKeepsFates`). Counters only grow, hence the snapshots.

`TheBeatIsKept` is `LoopsKeepTheBeat`, with `BeatInv`: while a simulation runs there is one process of the topology, due at a multiple of the interval
that is the number of updates plus the number of calls of `run`; an exception removes it and leaves the clock at that multiple; and ticks are due
one unit after another. What multiples say about divisions is a lemma of its own.

**`SessionProofs`** extends `TallyProofs`, whose invariants it uses.

| theorem | property | argument |
|---|---|---|
| `RoundsComplete` | `RoundsAreComplete` | `RoundsInv`: each generator has published what its rounds say. `Published` enumerates pairs by rank; the packets of one generator are a subsequence that others do not touch |
| `BuiltAndReported` | `AskedIsBuilt` | `PlanInv`: the configuration is the base overlaid with the last turn, for the turns of a command assign the same fields; and if the first turn can be built so can all. With `TallyInv` for the report and `ListenInv` for the collectors |
| `TypesAreRight` | `TypeOK` | `ClockInv` (no process is late; the end is reached exactly when the simulation has ended) and `RegistryInv` (all that is named is in the registry) |
| `GraphIsConnected` | `GraphHoldsTogether` | the search of `Reached` is closed after as many rounds as there are nodes. A ring is connected because each satellite that is left is linked to the next one that is left, in the order of keys; a grid because it is connected along and across its planes; a pod is linked to the nearest satellite, which exists: the least distance, then the least key |
| `SweepIsSerial` | `SweepIsOrderFree` | results stand at their tasks; groups are blocks of tasks of equal length, so the rank of a group is that of its size and mode |

**Model-checked only.** Liveness: the fairness part of `PacketLedger`, `DeliveredIsComputed` and `RunsEnd`. Deductions from fairness need ENABLED, which
is beyond TLAPS. For `Forwarding` all but the last step of the argument is proved: a packet's process makes at most `4 * MaxHops + 5` steps
(`EveryStepCounts`); a packet that waits for a link waits for one that is sending, or has a link with a head that can be passed on (`LinksServe`);
and a task that was delivered is queued, being executed, or executed, with a token for it in a pod that never emitted a packet (`PodsKeepTheirWork`).
What is left to TLC is that processes which can go on do. All safety properties of the passing runs are theorems.

## What the models found

1. **Relay queues keep phantom packets** (`phantom_relay`; engine 683-697, `docs/architecture.md:71`). A relay queues a packet on
   acceptance and pops one when a packet leaves. A packet dropped in between (no route, hop limit) never leaves, and its slot
   is never freed. After `RELAY_QUEUE_CAPACITY` such drops the relay refuses everything. `BacklogIsStranded` says how much is lost.
2. **A pod that sends loses tasks** (`phantom_pod`; engine 613, docstring 568-574). The source accepts its own packet like
   any other, so a pod queues the packet it sends as a task, without a token. Its server later executes it in the
   place of a delivered task, and one task is never executed.
3. **Shortest-path routing ping-pongs next to a fault** (`ping_pong`; `shortest_path.py:73`, engine 75-76). The node next to
   the fault searches a detour, and the node the detour leads to still has the old table.
4. **The live search goes through pods** (`pod_transit`; `shortest_path.py:202`, `docs/architecture.md:73`). If the
   destination is not a pod, pods are not excluded, and the engine drops the packet.
5. **Backpressure routing locks between two ground stations** (`ring_lock`; `backpressure.py:184`,
   `docs/architecture.md:73`). Every link has two directions, so a station under a satellite reaches everything, through that satellite, and
   the filter against dead ends lets it pass. When a packet has seen all neighbours only the weights decide, and a
   station weighs least. An intact ring does not do this, of whatever size (`IntactRingsDeliver`, proved); a ring with a failed satellite does.
6. **Thermal latches are counted as radiation faults** (`misblamed`; `physics_metrics.py:73`, 14-16). Both models report a fault
   by setting `fault_probability` to 1; the collector takes it for radiation whenever the node is under 400 K.

Further observations, without a run of their own:

- A link that was away is given a shift over all that time as if it were one tick (`doppler.py:79`; `ShiftIsOverOneTick` has to
  except such links), and `docs/physics_extensions.md:92` describes an orchestrator that feeds each model the output of the
  one before, which it does not (`orchestrator.py:66`).
- The engine's header (20-21) says that any exception of a Layer 2 component is caught and the simulation continues. `update_topology` is
  called without a guard (463): its exception leaves `env.run`, and no results are returned. Calling `run` again starts all
  processes a second time next to the survivors; workloads then send twice as much. `LoopsKeepTheBeat` states what one exception costs.
- A simulation that has ended cannot be run again: `env.run` raises, as its time is not in the future.
- `federated_learning.py:6-13` describes gather, aggregate and broadcast as phases. The broadcast is published in the
  same instant as the gathers (75), before anything has arrived; `RoundsAreComplete` states the order that is kept.
- `geographic.py:7-10` promises forward progress. At a local minimum the fallback takes the packet further away, and it comes back
  (`GreedyLoopsOnlyAtMinima` states where).
- `physics_compute_synergy.py` prefers links within a plane by comparing names of planes, which the ids `sat-{plane}-{sat}` never satisfy.
- The greedy router and the three that search may name a pod as a relay; the engine drops the packet as `pod_not_transit`.
- The switch `--physics` turns models on but not the collector of physics: the report then says 0 drops caused by
  physics (`ReportIsTrue`: 0 where nothing listened). `simulate` with a configuration ignores its argument for physics, and all others.
- `compare` prints `compute_jobs_completed` (`cli.py:39`, 239) out of the network collector's summary, which has none: always 0. The same
  holds for `results.network.throughput_gbps`.
- The schema is called closed (`schema.py:103-107`), but only the outermost section forbids unknown fields: `examples/sdc_backpressure.py:29-38`
  passes weights in a section of its own under `routing`, which are dropped, and reports them as configured (90).
- A plane of one satellite is linked to itself.

`PROJECT.json` quotes the lines. For all the rest, the checked and proved properties hold.

## What is not modelled

- Formulas: temperature, radiation, power, Doppler, orbits, distances and elevations are floating-point
  arithmetic. The models take what they may produce (graphs, views, weights, faults) as constants; `PhysicsTick` keeps the
  direction and the bounds of temperature, dose and charge, and the bit error rate of links, which nothing reads, is left out.
- Link qualities in the topology builder (delay, capacity) and overrides of them, which the engine never gives.
- Presentation: the printed report, plots, export, serialisation and comparison of results, `list_strategies`, the event log.
- Reset and export of the metrics, which the engine never calls; collectors that raise (the bus logs it, see `EventBus`).
- A `setup` that raises, and a second simulation in one process: each has its own environment and bus.
- Node methods the engine never calls (`send_uplink`), degradation factors, node snapshots; the node events of `base.py`, to
  which nothing subscribes.
- Example scripts and extension examples other than the scaling sweep and the energy-aware router: they configure and call what is modelled.
- Time in `Forwarding` and in routing: rates, latencies and throughput. Properties about order and fate do not depend on them, except that an order which
  durations happen to enforce in a given run is not assumed. In `Simulation` intervals are whole units, and the interval of a workload is
  positive (`IsProfile`): with zero, simulated time would stop.
- `Forwarding` and `Simulation` are not composed into one state space: `Simulation` lets any node drop a packet at any time,
  and what makes it do so is `Forwarding`, which in turn lets graph and faults change at any time.

## The plan

The order in which the project was built: `Forwarding` with `PacketLedger`; `EventBus`; `ShortestPathRouting`; `BackPressureRouting`;
`PhysicsTick`; `RoutingEngines`; `TopologyBuilder`, `Workloads`, `Metrics` under `Simulation`; `Configuration` and `ScalingSweep` under `Session`. Each
with its run, and proofs where the provers reach.

Worth doing next:

1. Link qualities: `effective_capacity_fraction` is written on edges by physics and lost at the next rebuild. With durations in
   `Forwarding` one could ask how long a packet keeps a link that is no longer there.
2. A proof that `Forwarding` publishes for every packet the events `Simulation` announces, as a refinement between the two; it needs a
   common vocabulary of fates.
3. Which graphs other than rings, grids above all, keep a packet of the backpressure router from locking; `RingsDeliver` uses
   that a ring leaves a packet one way to go on.
4. A run for each of the further observations above that contradicts a documented sentence.
