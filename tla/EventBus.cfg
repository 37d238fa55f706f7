CONSTANTS
  PacketDropEvent = PacketDropEvent
  PhysicsInducedDropEvent = PhysicsInducedDropEvent
  c1 = c1
  c2 = c2
  Idle = Idle
  Types = {PacketDropEvent, PhysicsInducedDropEvent}
  Mro <- MCMro
  Callbacks = {c1, c2}
  Priorities = {0, 1}
  MaxSeq = 2
  MaxDepth = 2
  MaxScheduled = 1
SPECIFICATION Spec
SYMMETRY Symmetry
INVARIANTS
  TypeOK
  QueryIsTruthful
  OrderIsTotal
PROPERTY
  NotifiesTheRegistered
