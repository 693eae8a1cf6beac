----------------------------- MODULE MCTcpConnect -----------------------------
(* TcpConnect with the times of the code, in whole seconds.                *)
EXTENDS TcpConnect

MCNoErrors == {}
MCBothOutcomes == {TRUE, FALSE}
MCOnlyOpen == {TRUE}

\* ECONNREFUSED and EHOSTUNREACH end an attempt, ENETUNREACH is immediate.
MCHandshakeErrors == {111, 113}
MCRouteErrors == {101}
=============================================================================
