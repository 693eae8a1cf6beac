---------------------------- MODULE MCLifecycleDvl ----------------------------
(* LifecycleDvl with reports that differ in what the altitude logic reads. *)
EXTENDS LifecycleDvl

Velocity3(valid, altitude, complete) ==
  [type |-> "velocity", valid |-> valid, altitude |-> altitude, complete |-> complete]

MCReports == {
  Velocity3(TRUE, 7, TRUE), Velocity3(TRUE, 5, FALSE),
  Velocity3(FALSE, 3, TRUE), Velocity3(TRUE, -1, TRUE),
  [type |-> "position_local", valid |-> TRUE, altitude |-> 0, complete |-> TRUE],
  [type |-> "other", valid |-> TRUE, altitude |-> 0, complete |-> FALSE]}
\* 7 and -1 with their digit twice.
MCGarbled == {77, -11}
MCOneReport == {Velocity3(TRUE, 7, TRUE)}
=============================================================================
