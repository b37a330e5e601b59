---------------------------- MODULE MCRouteStatus ----------------------------
(***************************************************************************)
(* An instance of RouteStatus: two Gateways share a Route, whose parentRefs*)
(* name two sections of each, or neither Gateway.                          *)
(***************************************************************************)
EXTENDS RouteStatus, TLC

CONSTANTS s1, s2

MCSections == {s1, s2}
MCRefLists == {[g \in Gateways |-> l] : l \in {<<>>, <<s2, s1>>}}

Symmetry == Permutations(Gateways)
=============================================================================
