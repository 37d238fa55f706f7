CONSTANTS
  g = g
  r1 = r1
  r2 = r2
  d = d
  d2 = d2
  p1 = p1
  p2 = p2
  p3 = p3
  Nobody = Nobody
  Relays = {r1, r2}
  Pods = {d, d2}
  Grounds = {g}
  Packets = {p1, p2, p3}
  Src <- PodSrc
  Dst <- PodDst
  Priority <- MCPriority
  MaxHops = 3
  RelayCapacity = 2
  PodCapacity = 2
  Topologies <- OneTopology
  FaultSets <- NoFaults
SPECIFICATION FairSpec
PROPERTY
  DeliveredIsComputed
