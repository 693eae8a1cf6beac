--------------------------- MODULE OdometryMailbox ---------------------------
(***************************************************************************)
(* What the odometry bridge promises of the dictionary its threads share:  *)
(* a report is put into it whole, at one moment, and none is left out; a   *)
(* message is what the dictionary held at one moment.  Reports of a kind   *)
(* are numbered, 0 stands for no report and for the zeros of an invalid    *)
(* velocity.                                                               *)
(***************************************************************************)
EXTENDS Integers

VARIABLES
  latest,  \* the dictionary
  held,    \* what the publisher has looked up
  sent     \* the messages

mail == <<latest, held, sent>>

Nothing == [t_pos |-> 0, pos |-> 0, t_vel |-> 0, v |-> 0]

Init == latest = Nothing /\ held = Nothing /\ sent = {}

PutPosition ==
  LET n == latest.t_pos + 1
  IN  /\ latest' = [latest EXCEPT !.t_pos = n, !.pos = n]
      /\ UNCHANGED <<held, sent>>

PutVelocity ==
  LET n == latest.t_vel + 1
  IN  /\ \E v \in {0, n} : latest' = [latest EXCEPT !.t_vel = n, !.v = v]
      /\ UNCHANGED <<held, sent>>

LookUp == held' = latest /\ UNCHANGED <<latest, sent>>

Send ==
  /\ held.t_pos # 0 /\ held.t_vel # 0
  /\ sent' = sent \cup {held}
  /\ UNCHANGED <<latest, held>>

Next == PutPosition \/ PutVelocity \/ LookUp \/ Send

Spec == Init /\ [][Next]_mail

-----------------------------------------------------------------------------
(* What follows for MAVROS: of two messages one is the later in position   *)
(* and in velocity, so that none mixes a new position with a velocity      *)
(* older than one that was sent.                                           *)
NotAfter(m, n) == m.t_pos <= n.t_pos /\ m.t_vel <= n.t_vel

Comparable == \A m, n \in sent : NotAfter(m, n) \/ NotAfter(n, m)
=============================================================================
