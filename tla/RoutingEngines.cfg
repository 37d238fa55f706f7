CONSTANTS
  a = a
  b = b
  c = c
  e = e
  pod = pod
  ga = ga
  gc = gc
  None = None
  Nodes = {a, b, c, e, pod, ga, gc}
  Pods = {pod}
  Sources = {pod, ga, gc}
  Destinations = {pod, ga, gc}
  Graphs <- MCGraphs
  Penalties <- MCPenalties
  FaultSets <- MCFaultSets
  Strategies <- AllStrategies
  Distance <- MCDistance
  Conditions <- MCConditions
  MaxHops = 6
  Infinity = 10000
SPECIFICATION SpecEngines
INVARIANTS
  EnginesTypeOK
  TableRoutesDoNotMix
  GreedyLoopsOnlyAtMinima
  SearchedRoutesAreSimple
PROPERTIES
  HopIsSound
  NoRouteMeansCutOff
  TableRoutesAreShortest
