---------------------------- MODULE MavlinkInjector ----------------------------
(***************************************************************************)
(* dvl2mavlink.py: a thread that receives the sensor's reports into the    *)
(* dictionary last, and the main thread that sends what happened between   *)
(* the last two velocity reports to the autopilot, 15 times a second and   *)
(* without looking whether it has sent that before.  The dictionary is     *)
(* read and written under one lock; the send works on a copy.              *)
(*                                                                         *)
(* Reports are numbered as they are received.  A time stamp is the wall    *)
(* clock's, which goes on by a tick with real time, and may be set at any  *)
(* time, forward or back.                                                  *)
(***************************************************************************)
EXTENDS Integers, Sequences

CONSTANTS
  MinDelta,      \* ticks: an interval must be longer, 1 ms
  MaxDelta,      \* ticks: an interval must not be longer, 1 s
  MaxAttempts,   \* attempts to set the origin, 3
  ConnectWorks,  \* outcomes of connect_target
  MaxTime,       \* bound on the clock, and on the real time between two reports
  MaxReports,    \* bound on the velocity reports, and on the position reports
  MaxSends       \* bound on the deltas sent

ASSUME BoundsAssumption ==
  /\ MinDelta \in Nat /\ MaxDelta \in Nat /\ MaxAttempts \in Nat
  /\ MaxTime \in Nat /\ MaxReports \in Nat /\ MaxSends \in Nat
  /\ ConnectWorks \subseteq BOOLEAN

\* A report and when it was received; number 0 is the None of the dictionary.
Stamp == [n : 0..MaxReports, at : 0..MaxTime]
None == [n |-> 0, at |-> 0]

Last == [t_vel : Stamp, t_vel_prev : Stamp, valid : BOOLEAN,
         v : 0..MaxReports,                \* the report vx, vy, vz are from
         att : 0..MaxReports,              \* the report roll, pitch, yaw are from
         prev_att : 0..MaxReports]

\* A velocity report received: the real time since the one before it, and
\* whether the clock was set in that time.
Reception == [valid : BOOLEAN, apart : 0..MaxTime, set : BOOLEAN]

\* A delta sent: what it was made of, and the interval the autopilot was told.
Message == [delta : Last, interval : Int]

VARIABLES
  clock,
  session,     \* is the receiving thread connected?
  last,        \* self.last
  velocities,  \* history: the velocity reports received
  since,       \* history: the real time since the last of them, once there is one
  wasSet,      \* history: was the clock set since then?
  positions,   \* how many position reports were received
  pc,          \* the main thread
  attempts,
  origin_set,
  copy,        \* what send_vision_position_delta copied under the lock
  sent         \* history: the deltas sent

vars == <<clock, session, last, velocities, since, wasSet, positions, pc,
          attempts, origin_set, copy, sent>>

mainVars == <<pc, attempts, origin_set, copy, sent>>
reportVars == <<velocities, since, wasSet>>
recvVars == <<session, last, reportVars, positions>>

Initial == [t_vel |-> None, t_vel_prev |-> None, valid |-> FALSE, v |-> 0,
            att |-> 0, prev_att |-> 0]

TypeOK ==
  /\ clock \in 0..MaxTime
  /\ session \in {"off", "down", "up"}
  /\ last \in Last
  /\ velocities \in Seq(Reception)
  /\ since \in 0..MaxTime
  /\ wasSet \in BOOLEAN
  /\ positions \in 0..MaxReports
  /\ pc \in {"connect", "origin", "loop", "sending", "finished"}
  /\ attempts \in 0..MaxAttempts
  /\ origin_set \in BOOLEAN
  /\ copy \in Last
  /\ sent \in Seq(Message)

Init ==
  /\ clock = 0
  /\ session = "off"
  /\ last = Initial
  /\ velocities = <<>>
  /\ since = 0
  /\ wasSet = FALSE
  /\ positions = 0
  /\ pc = "connect"
  /\ attempts = 0
  /\ origin_set = FALSE
  /\ copy = Initial
  /\ sent = <<>>

-----------------------------------------------------------------------------
(* The receiving thread.                                                   *)

\* Connecting starts a session; nothing in last is reset.
SessionStarts ==
  /\ session = "down"
  /\ session' = "up"
  /\ UNCHANGED <<clock, last, reportVars, positions, mainVars>>

\* The connection ends, the sensor is silent for 3 s, or a line is not JSON.
SessionEnds ==
  /\ session = "up"
  /\ session' = "down"
  /\ UNCHANGED <<clock, last, reportVars, positions, mainVars>>

\* A position report: the attitude it replaces becomes the previous one.
AttitudeFirstOnly(l, n) == [l EXCEPT !.att = n]
Attitude(l, n) == [l EXCEPT !.prev_att = l.att, !.att = n]

ReceivePosition ==
  /\ session = "up"
  /\ positions < MaxReports
  /\ positions' = positions + 1
  /\ last' = Attitude(last, positions + 1)
  /\ UNCHANGED <<clock, session, reportVars, mainVars>>

\* A velocity report: an invalid one moves t_vel but not t_vel_prev, and
\* zeroes the velocity.
VelocitySkipsInvalid(l, n, valid) ==
  IF valid
  THEN [l EXCEPT !.t_vel_prev = l.t_vel, !.t_vel = [n |-> n, at |-> clock],
                 !.valid = TRUE, !.v = n]
  ELSE [l EXCEPT !.valid = FALSE, !.v = 0]
Velocity(l, n, valid) ==
  [l EXCEPT !.t_vel_prev = IF valid /\ l.t_vel # None THEN l.t_vel ELSE @,
            !.t_vel = [n |-> n, at |-> clock],
            !.valid = valid,
            !.v = IF valid THEN n ELSE 0]

ReceiveVelocity ==
  /\ session = "up"
  /\ Len(velocities) < MaxReports
  /\ \E valid \in BOOLEAN :
       /\ velocities' = Append(velocities, [valid |-> valid, apart |-> since, set |-> wasSet])
       /\ last' = Velocity(last, Len(velocities) + 1, valid)
  /\ since' = 0
  /\ wasSet' = FALSE
  /\ UNCHANGED <<clock, session, positions, mainVars>>

-----------------------------------------------------------------------------
(* The main thread.                                                        *)

\* connect_target; the receiving thread is started only if it succeeds.
ConnectTarget ==
  /\ pc = "connect"
  /\ \/ /\ TRUE \in ConnectWorks
        /\ pc' = "origin"
        /\ session' = "down"
     \/ /\ FALSE \in ConnectWorks
        /\ pc' = "finished"
        /\ UNCHANGED session
  /\ UNCHANGED <<clock, last, reportVars, positions, attempts, origin_set, copy, sent>>

\* The test of the loop that sets the origin.
MayAttemptOnceMore(n) == n <= MaxAttempts
MayAttempt(n) == n < MaxAttempts

\* Another attempt to set the origin, which raises an exception or succeeds.
SetOrigin ==
  /\ pc = "origin"
  /\ MayAttempt(attempts)
  /\ attempts' = attempts + 1
  /\ \/ origin_set' = TRUE /\ pc' = "loop"
     \/ UNCHANGED <<origin_set, pc>>
  /\ UNCHANGED <<clock, recvVars, copy, sent>>

\* "EKF origin not set; continuing".
ContinueWithout ==
  /\ pc = "origin"
  /\ ~MayAttempt(attempts)
  /\ pc' = "loop"
  /\ UNCHANGED <<clock, recvVars, attempts, origin_set, copy, sent>>

Sendable(l) == l.valid /\ l.t_vel # None /\ l.t_vel_prev # None

\* The call returns before the lock, or with nothing to send.
SkipSend ==
  /\ pc = "loop"
  /\ ~origin_set \/ ~Sendable(last)
  /\ UNCHANGED vars

CopyLast ==
  /\ pc = "loop"
  /\ origin_set
  /\ Sendable(last)
  /\ copy' = last
  /\ pc' = "sending"
  /\ UNCHANGED <<clock, recvVars, attempts, origin_set, sent>>

IntervalUnlocked(l) == last.t_vel.at - l.t_vel_prev.at
Interval(l) == l.t_vel.at - l.t_vel_prev.at

Accepted(d) == d > MinDelta /\ d <= MaxDelta

\* The rest of the call, after the lock is released; sending may fail.
SendDelta ==
  /\ pc = "sending"
  /\ Len(sent) < MaxSends
  /\ pc' = "loop"
  /\ \/ /\ Accepted(Interval(copy))
        /\ sent' = Append(sent, [delta |-> copy, interval |-> Interval(copy)])
     \/ UNCHANGED sent
  /\ UNCHANGED <<clock, recvVars, attempts, origin_set, copy>>

Stop ==
  /\ pc = "loop"
  /\ pc' = "finished"
  /\ UNCHANGED <<clock, recvVars, attempts, origin_set, copy, sent>>

\* A tick of real time, and of the wall clock.
ClockTicks ==
  /\ clock < MaxTime
  /\ since < MaxTime
  /\ clock' = clock + 1
  /\ since' = IF velocities = <<>> THEN 0 ELSE since + 1
  /\ UNCHANGED <<session, last, velocities, wasSet, positions, mainVars>>

\* The wall clock is set, forward or back.
ClockIsSet ==
  /\ clock' \in 0..MaxTime
  /\ clock' # clock
  /\ wasSet' = (velocities # <<>>)
  /\ UNCHANGED <<session, last, velocities, since, positions, mainVars>>

Receiver == SessionStarts \/ SessionEnds \/ ReceivePosition \/ ReceiveVelocity
Main == ConnectTarget \/ SetOrigin \/ ContinueWithout \/ SkipSend \/ CopyLast
          \/ SendDelta \/ Stop

Next == Receiver \/ Main \/ ClockTicks \/ ClockIsSet

Spec == Init /\ [][Next]_vars

-----------------------------------------------------------------------------
(* A delta sent is about two velocity reports received one right after the *)
(* other, the later one valid, and the velocity in it is the later one's:  *)
(* whatever came in between the copy and the send, in the reports or in    *)
(* the connection.                                                         *)
DeltaIsConsecutive ==
  \A i \in DOMAIN sent :
    LET d == sent[i].delta
    IN  /\ d.t_vel_prev.n + 1 = d.t_vel.n
        /\ velocities[d.t_vel.n].valid
        /\ d.v = d.t_vel.n

(* Its attitude is that of two position reports received one right after   *)
(* the other; before the first one the previous attitude is the zero the   *)
(* dictionary starts with.                                                 *)
AttitudeIsConsecutive ==
  \A i \in DOMAIN sent :
    LET d == sent[i].delta
    IN  \/ d.prev_att + 1 = d.att
        \/ d.prev_att = 0 /\ d.att = 0

(* The interval the autopilot is told is the real time that passed between *)
(* the report its velocity is from and the report before that one, however *)
(* long the delta waited, whatever was received meanwhile and however      *)
(* often the clock was set before or after.  Only a clock set between      *)
(* those two reports falsifies it, and then no further than its limits.    *)
IntervalIsReal ==
  \A i \in DOMAIN sent :
    LET report == velocities[sent[i].delta.v]
    IN  IF report.set
        THEN sent[i].interval \in MinDelta + 1 .. MaxDelta
        ELSE sent[i].interval = report.apart
=============================================================================
