---------------------- MODULE MCGatewayClassProcessor ----------------------
(***************************************************************************)
(* Instances of GatewayClassProcessor.  Five user edits are enough to      *)
(* create, change, delete and create a class again while a goroutine is in *)
(* any of its states.                                                      *)
(***************************************************************************)
EXTENDS GatewayClassProcessor
=============================================================================
