-------------------------- MODULE MCGatewayManager --------------------------
(* Instances of GatewayManager for TLC.                                    *)
EXTENDS GatewayManager
=============================================================================
