---------------------------- MODULE MCSampleBridge ----------------------------
(* SampleBridge with its limits scaled down: 0.2 s of extrapolation and 1 s  *)
(* of age are a tick, and the gap of less than 1 s is one below two ticks,   *)
(* so that reports fall on either side of each.                              *)
EXTENDS SampleBridge
=============================================================================
