-------------------------- MODULE MCIntegratedBridge --------------------------
(* IntegratedBridge with one text of each kind; a tick is 150 ms.          *)
EXTENDS IntegratedBridge

CONSTANTS vel, pos, ack, lit, bad

MCVelocities == {vel}
MCPositions  == {pos}
MCOthers     == {ack}
MCLiterals   == {lit}
MCFragments  == {bad}
=============================================================================
