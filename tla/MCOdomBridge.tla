----------------------------- MODULE MCOdomBridge -----------------------------
(* OdomBridge with a few reports of each kind.                             *)
EXTENDS OdomBridge
=============================================================================
