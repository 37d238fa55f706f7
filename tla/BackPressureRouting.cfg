CONSTANTS
  a = a
  b = b
  c = c
  e = e
  q = q
  r = r
  s = s
  pod = pod
  None = None
  Nodes = {a, b, c, e, q, r, s, pod}
  Pods = {pod}
  Sources = {pod, q, s}
  Destinations = {pod, r, s}
  Graphs <- MCGraphs
  Loads <- MCLoads
  FaultSets <- MCFaultSets
  MaxHops = 14
SPECIFICATION Spec
INVARIANTS
  TypeOK
  IntactRingsDeliver
PROPERTIES
  HopIsSound
  LastResorts
