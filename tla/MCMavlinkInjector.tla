-------------------------- MODULE MCMavlinkInjector --------------------------
(* MavlinkInjector; a tick is a second.                                    *)
EXTENDS MavlinkInjector

MCBoth == {TRUE, FALSE}
=============================================================================
