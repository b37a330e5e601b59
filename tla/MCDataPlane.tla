----------------------------- MODULE MCDataPlane -----------------------------
(***************************************************************************)
(* An instance of DataPlane: up to two Gateways that share an object name. *)
(***************************************************************************)
EXTENDS DataPlane

CONSTANTS g1, g2

Two == {g1, g2}
DeploymentAndService == <<"Deployment", "Service">>

(* Nothing tells one Gateway from the other.                               *)
Symmetry == Permutations(Two)
=============================================================================
