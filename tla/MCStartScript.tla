---------------------------- MODULE MCStartScript ----------------------------
(* StartScript with the texts of MCIntegratedBridge.  The bridge's tick is  *)
(* 150 ms and the tools' 20 ms: the script runs one after the other.        *)
EXTENDS StartScript, MCIntegratedBridge
=============================================================================
