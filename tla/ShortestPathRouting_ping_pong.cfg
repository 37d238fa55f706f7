CONSTANTS
  a = a
  b = b
  c = c
  e = e
  pod = pod
  ga = ga
  gc = gc
  None = None
  Nodes = {a, b, c, e, pod, ga, gc}
  Pods = {pod}
  Sources = {pod, ga, gc}
  Destinations = {pod}
  Graphs <- MCGraphs
  Penalties <- MCPenalties
  FaultSets <- MCFaultSets
  MaxHops = 6
  Infinity = 1000
SPECIFICATION Spec
INVARIANT
  RoutesAreSimple
