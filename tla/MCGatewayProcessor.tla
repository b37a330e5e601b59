------------------------- MODULE MCGatewayProcessor -------------------------
(***************************************************************************)
(* A small instance of GatewayProcessor.  Keys never interact except       *)
(* through the map, so two are enough; three goroutine identities leave    *)
(* room for one goroutine more than there are keys, so that a second       *)
(* goroutine for a key could appear if the map let it.                     *)
(***************************************************************************)
EXTENDS GatewayProcessor
=============================================================================
