------------------------------ MODULE MCPyDriver ------------------------------
(* PyDriver with one report of each kind the node tells apart.             *)
EXTENDS PyDriver

Text(type, valid, altitude, fields) ==
  [type |-> type, valid |-> valid, altitude |-> altitude, fields |-> fields]

MCReports == {
  Text("velocity", TRUE, 7, "good"), Text("velocity", FALSE, 3, "good"),
  Text("velocity", TRUE, -1, "good"), Text("velocity", TRUE, 5, "late"),
  Text("velocity", TRUE, 9, "early"),
  Text("position_local", TRUE, 0, "good"), Text("position_local", TRUE, 0, "late"),
  Text("response", TRUE, 0, "good"), Text("literal", TRUE, 0, "good"),
  Text("fragment", TRUE, 0, "good")}
=============================================================================
