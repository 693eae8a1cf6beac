----------------------------- MODULE LineChannel -----------------------------
(***************************************************************************)
(* What the node promises about the sensor's lines, whatever way the bytes *)
(* come in: a line is handled when it is complete, lines are handled one   *)
(* at a time in the order sent, and handling a line publishes it on its    *)
(* topic, once, unless it has none.  A line is known by its place.         *)
(***************************************************************************)
EXTENDS Integers, Sequences

VARIABLES
  written,  \* the complete lines, each with its topic, "none" for one without
  handled,  \* those that have been handled
  out       \* the lines that have been published

chan == <<written, handled, out>>

Topics == {"dvl/data", "dvl/position", "dvl/config/status", "dvl/command/response"}
Line == [at : Nat, topic : Topics \cup {"none"}]

Init == written = {} /\ handled = {} /\ out = <<>>

\* The sensor completes a line, behind all others.
Write ==
  /\ \E l \in written' :
       /\ l \in Line
       /\ \A m \in written : m.at < l.at
       /\ written' = written \cup {l}
  /\ UNCHANGED <<handled, out>>

\* The node handles the first line it has not handled.
Handle ==
  /\ \E l \in written \ handled :
       /\ \A m \in written \ handled : l.at <= m.at
       /\ handled' = handled \cup {l}
       /\ out' = IF l.topic = "none" THEN out ELSE Append(out, l)
  /\ UNCHANGED written

Next == Write \/ Handle

Spec == Init /\ [][Next]_chan

-----------------------------------------------------------------------------
(* What follows for the subscribers of the topics: the lines come in the   *)
(* order sent, none twice, and a handled line that has a topic is out.     *)
OutOf(l) == \E i \in DOMAIN out : out[i] = l

Complete ==
  /\ \A i, j \in DOMAIN out : i < j => out[i].at < out[j].at
  /\ \A l \in written : l \in handled /\ l.topic # "none" <=> OutOf(l)
  /\ \A i \in DOMAIN out : out[i] \in handled
=============================================================================
