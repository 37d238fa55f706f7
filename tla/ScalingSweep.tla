----------------------------- MODULE ScalingSweep -----------------------------
(***************************************************************************)
(* The scaling sweep: a list of seeded simulations handed out to a pool of *)
(* worker processes, whose results are put back in the order of the list   *)
(* and grouped into rows.  A result is what it was the result of: a        *)
(* simulation reads nothing but its configuration and its seed.            *)
(***************************************************************************)
EXTENDS Configuration, FiniteSets

CONSTANTS
  Modes,      \* PHYSICS_MODES, in order
  Workers     \* the size of the pool, 1 for the serial loop

ASSUME WorkersAssumption == Workers \in Nat \ {0}

\* The lists name each size and each mode once.
ASSUME ListsAssumption ==
  /\ Modes \in Seq({"disabled", "thermal_only", "full_physics"})
  /\ Seeds \in Seq(Nat)
  /\ \A i, j \in DOMAIN Scales : Scales[i] = Scales[j] => i = j
  /\ \A i, j \in DOMAIN Modes : Modes[i] = Modes[j] => i = j

VARIABLES
  busy,       \* the tasks the workers are at
  handed,     \* how many tasks have been handed out
  perTask,    \* per_task: a result or None for each task
  rows        \* what is written to the files

sweepVars == <<busy, handed, perTask, rows>>

None == [seed |-> 0]

\* build_tasks: size is the outermost loop and seed the innermost.  The loops
\* over pods and strategies are left out, as they are nested alike.
Tasks ==
  FlattenSeq([i \in DOMAIN Scales |->
    FlattenSeq([m \in DOMAIN Modes |->
      [r \in DOMAIN Seeds |-> [size |-> Scales[i], mode |-> Modes[m], seed |-> Seeds[r]]]])])

TaskConfig(task) == WithPhysicsMode(Overlay(DefaultConfig, [size |-> task.size]), task.mode)

\* run_config: what is run, the result of which is determined by it.
RunConfig(cfg, seed) == [spec |-> Translated(cfg), seed |-> seed]

RunTask(task) == RunConfig(TaskConfig(task), task.seed)

InitSweep ==
  /\ busy = {}
  /\ handed = 0
  /\ perTask = [i \in DOMAIN Tasks |-> None]
  /\ rows = <<>>
-----------------------------------------------------------------------------
\* The pool hands out the tasks in order, one at a time.
TakeTask ==
  /\ handed < Len(Tasks)
  /\ Cardinality(busy) < Workers
  /\ handed' = handed + 1
  /\ busy' = busy \cup {handed + 1}
  /\ UNCHANGED <<perTask, rows>>

\* Fault: results are put down in the order they come in.
PlaceAsTheyCome(i) ==
  /\ i \in busy
  /\ busy' = busy \ {i}
  /\ LET free == CHOOSE j \in DOMAIN perTask :
                   perTask[j] = None /\ \A k \in 1 .. j - 1 : perTask[k] # None
     IN  perTask' = [perTask EXCEPT ![free] = RunTask(Tasks[i])]
  /\ UNCHANGED <<handed, rows>>

\* imap_unordered: whichever task is done next comes with its index.
Place(i) ==
  /\ i \in busy
  /\ busy' = busy \ {i}
  /\ perTask' = [perTask EXCEPT ![i] = RunTask(Tasks[i])]
  /\ UNCHANGED <<handed, rows>>

\* The members of a set of numbers, in ascending order.
Listed(S) ==
  [n \in 1 .. Cardinality(S) |-> CHOOSE j \in S : Cardinality({k \in S : k < j}) = n - 1]

\* The tasks of one configuration, in order.
Group(i) ==
  Listed({j \in DOMAIN Tasks : Tasks[j].size = Tasks[i].size /\ Tasks[j].mode = Tasks[i].mode})

\* _aggregate_rows: a group stands where its first task does.
AggregateRows ==
  /\ rows = <<>>
  /\ \A i \in DOMAIN perTask : perTask[i] # None
  /\ LET leaders == Listed({j \in DOMAIN Tasks : Group(j)[1] = j})
     IN  rows' = [k \in DOMAIN leaders |->
                    [size |-> Tasks[leaders[k]].size, mode |-> Tasks[leaders[k]].mode,
                     runs |-> [n \in DOMAIN Group(leaders[k]) |-> perTask[Group(leaders[k])[n]]]]]
  /\ UNCHANGED <<busy, handed, perTask>>

NextSweep == TakeTask \/ (\E i \in DOMAIN perTask : Place(i)) \/ AggregateRows
-----------------------------------------------------------------------------
\* A result stands at the index of its task, and all are there once rows are.
ResultsAreInPlace ==
  /\ \A i \in DOMAIN perTask : perTask[i] \in {None, RunTask(Tasks[i])}
  /\ rows # <<>> => \A i \in DOMAIN perTask : perTask[i] = RunTask(Tasks[i])

\* One row over the runs of one configuration, in the order of their seeds, none
\* of which has inherited the physics of another.
IsRowOf(row, size, mode) ==
  /\ row.size = size /\ row.mode = mode
  /\ [r \in DOMAIN row.runs |-> row.runs[r].seed] = Seeds
  /\ \A r \in DOMAIN row.runs :
       LET s == row.runs[r].spec IN
       /\ s.size = size
       /\ s.models = CASE mode = "disabled" -> {}
                       [] mode = "thermal_only" -> {"thermal"}
                       [] mode = "full_physics" -> {"thermal", "radiation", "power"}

\* Whatever the number of workers and the order in which they finish, the rows
\* are those of the serial loop: one for each size and mode, sizes first.
SweepIsOrderFree ==
  /\ ResultsAreInPlace
  /\ rows # <<>> =>
       /\ Len(rows) = Len(Scales) * Len(Modes)
       /\ \A i \in DOMAIN Scales, m \in DOMAIN Modes :
            IsRowOf(rows[(i - 1) * Len(Modes) + m], Scales[i], Modes[m])
=============================================================================
