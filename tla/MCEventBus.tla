----------------------------- MODULE MCEventBus -----------------------------
(* A base class and a class derived from it, as PacketDropEvent and           *)
(* PhysicsInducedDropEvent are.                                               *)
EXTENDS EventBus, TLC

CONSTANTS PacketDropEvent, PhysicsInducedDropEvent, c1, c2

MCMro ==
  PacketDropEvent :> {PacketDropEvent}
  @@ PhysicsInducedDropEvent :> {PhysicsInducedDropEvent, PacketDropEvent}

Symmetry == Permutations({c1, c2})
=============================================================================
