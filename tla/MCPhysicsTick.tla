--------------------------- MODULE MCPhysicsTick ---------------------------
(***************************************************************************)
(* A satellite that passes through the shadow, a ground station in the     *)
(* sun, and a link between them that comes and goes.  Temperatures 1, 2    *)
(* and 3 are throttling, critical and more than a node stands.             *)
(***************************************************************************)
EXTENDS PhysicsTick, TLC

CONSTANTS sat, ground

Link == <<sat, ground>>

MCGraphs == {{}, {Link}}

\* A model of the user's between the built-in ones: what comes before it has
\* been advanced when it raises, what comes after has not.
MCModels == <<"thermal", "radiation", "doppler", "custom", "power">>
MCFragile == {"custom"}

\* The built-in models in the order of the configuration.
BuiltIn == <<"thermal", "radiation", "power", "doppler">>
NoneFragile == {}

MCShadows == {{}, {sat}}
=============================================================================
