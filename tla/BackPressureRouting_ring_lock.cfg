CONSTANTS
  a = a
  b = b
  c = c
  e = e
  q = q
  r = r
  s = s
  pod = pod
  None = None
  Nodes = {a, b, c, e, q, r, s, pod}
  Pods = {pod}
  Sources = {s}
  Destinations = {pod}
  Graphs <- OneGraph
  Loads <- OneLoad
  FaultSets <- OneFault
  MaxHops = 12
SPECIFICATION Spec
INVARIANT
  CannotLock
