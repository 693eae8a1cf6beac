------------------------------ MODULE OdomBridge ------------------------------
(***************************************************************************)
(* dvl2mavros_odom.py: one thread receives the sensor's reports into the   *)
(* dictionary _last, one sets the origin of the autopilot's filter and     *)
(* then an event, and the main thread waits for the event and publishes    *)
(* what _last holds.  Readers and writers of _last hold _lock; what is     *)
(* done under it takes two steps here, the time stamps and the values.     *)
(*                                                                         *)
(* Reports of each kind are numbered; a value is the number of the report  *)
(* it came in, 0 for what the dictionary starts with and for the zeros of  *)
(* an invalid velocity.                                                    *)
(***************************************************************************)
EXTENDS Integers, Sequences

CONSTANTS
  MaxReports   \* bound on the reports of each kind

ASSUME BoundsAssumption == MaxReports \in Nat

Numbers == 0..MaxReports
Last == [t_pos : Numbers, pos : Numbers, t_vel : Numbers, v : Numbers]
Report == [type : {"position_local", "velocity"}, n : 1..MaxReports, valid : BOOLEAN]

VARIABLES
  lock,        \* who holds _lock
  session,     \* is the receiving thread connected?
  receiver,    \* where it is with a line
  line,        \* the report it handles
  last,        \* _last
  positions,   \* history: how many position reports were received
  velocities,  \* history: for each velocity report, was it valid?
  origin,      \* where the thread that sets the origin is
  event,       \* ekf_origin_set_event
  main,        \* where the main thread is
  copy,        \* what it copied under the lock
  shutdown,    \* rospy.is_shutdown()
  published    \* history: what has been published

recvVars == <<session, receiver, line, last, positions, velocities>>
originVars == <<origin, event>>
mainVars == <<main, copy, published>>
vars == <<lock, recvVars, originVars, mainVars, shutdown>>

None == [type |-> "velocity", n |-> 0, valid |-> FALSE]
Empty == [t_pos |-> 0, pos |-> 0, t_vel |-> 0, v |-> 0]

TypeOK ==
  /\ lock \in {"free", "receiver", "main"}
  /\ session \in {"down", "up"}
  /\ receiver \in {"read", "enter", "stamp", "values"}
  /\ line \in Report \cup {None}
  /\ last \in Last
  /\ positions \in Numbers
  /\ velocities \in Seq(BOOLEAN) /\ Len(velocities) \in Numbers
  /\ origin \in {"waiting", "sent", "gone"}
  /\ event \in BOOLEAN
  /\ main \in {"waiting", "loop", "enter", "stamps", "values", "publish", "finished"}
  /\ copy \in Last
  /\ shutdown \in BOOLEAN
  /\ published \subseteq Last

Init ==
  /\ lock = "free"
  /\ session = "down"
  /\ receiver = "read"
  /\ line = None
  /\ last = Empty
  /\ positions = 0
  /\ velocities = <<>>
  /\ origin = "waiting"
  /\ event = FALSE
  /\ main = "waiting"
  /\ copy = Empty
  /\ shutdown = FALSE
  /\ published = {}

-----------------------------------------------------------------------------
(* with _lock: taking the lock, and giving it back however the block ends. *)
MayEnterAlways(l) == TRUE
MayEnter(l) == l = "free"

ReleasedIfValid(report) == IF report.valid THEN "free" ELSE "receiver"
Released(report) == "free"

-----------------------------------------------------------------------------
(* recv_thread.                                                            *)

SessionStarts ==
  /\ session = "down"
  /\ ~shutdown
  /\ session' = "up"
  /\ UNCHANGED <<lock, receiver, line, last, positions, velocities, originVars,
                 mainVars, shutdown>>

\* The sensor closes, is silent for 2 s, or sends what is not JSON; _last
\* keeps what it holds.
SessionEnds ==
  /\ session = "up"
  /\ receiver = "read"
  /\ session' = "down"
  /\ UNCHANGED <<lock, receiver, line, last, positions, velocities, originVars,
                 mainVars, shutdown>>

Reading == session = "up" /\ receiver = "read" /\ ~shutdown

ReadPosition ==
  /\ Reading
  /\ positions < MaxReports
  /\ positions' = positions + 1
  /\ line' = [type |-> "position_local", n |-> positions + 1, valid |-> TRUE]
  /\ receiver' = "enter"
  /\ UNCHANGED <<lock, session, last, velocities, originVars, mainVars, shutdown>>

ReadVelocity ==
  /\ Reading
  /\ Len(velocities) < MaxReports
  /\ \E valid \in BOOLEAN :
       /\ velocities' = Append(velocities, valid)
       /\ line' = [type |-> "velocity", n |-> Len(velocities) + 1, valid |-> valid]
  /\ receiver' = "enter"
  /\ UNCHANGED <<lock, session, last, positions, originVars, mainVars, shutdown>>

ReceiverEnters ==
  /\ receiver = "enter"
  /\ MayEnter(lock)
  /\ lock' = "receiver"
  /\ receiver' = "stamp"
  /\ UNCHANGED <<session, line, last, positions, velocities, originVars, mainVars,
                 shutdown>>

WriteStamp ==
  /\ receiver = "stamp"
  /\ last' = IF line.type = "velocity" THEN [last EXCEPT !.t_vel = line.n]
             ELSE [last EXCEPT !.t_pos = line.n]
  /\ receiver' = "values"
  /\ UNCHANGED <<lock, session, line, positions, velocities, originVars, mainVars,
                 shutdown>>

\* The velocity kept of a report, by its velocity_valid.
KeptStale(report) == IF report.valid THEN report.n ELSE last.v
Kept(report) == IF report.valid THEN report.n ELSE 0

\* The rest of the report; the lock is released.
WriteValues ==
  /\ receiver = "values"
  /\ last' = IF line.type = "velocity" THEN [last EXCEPT !.v = Kept(line)]
             ELSE [last EXCEPT !.pos = line.n]
  /\ lock' = Released(line)
  /\ receiver' = "read"
  /\ UNCHANGED <<session, line, positions, velocities, originVars, mainVars, shutdown>>

-----------------------------------------------------------------------------
(* set_ekf_origin_thread.                                                  *)

\* The origin goes out when MAVROS has subscribed, which may be never.
SendOrigin ==
  /\ origin = "waiting"
  /\ ~shutdown
  /\ origin' = "sent"
  /\ UNCHANGED <<lock, recvVars, event, mainVars, shutdown>>

\* A second later the event is set.  A shutdown before that ends the thread,
\* by its test or by the exception of rospy.sleep, and the event is not set.
SignalsAtOnce(o) == o # "gone"
Signals(o) == o = "sent"

SetEvent ==
  /\ ~event
  /\ Signals(origin)
  /\ event' = TRUE
  /\ UNCHANGED <<lock, recvVars, origin, mainVars, shutdown>>

OriginGoes ==
  /\ origin # "gone"
  /\ shutdown \/ event
  /\ origin' = "gone"
  /\ UNCHANGED <<lock, recvVars, event, mainVars, shutdown>>

-----------------------------------------------------------------------------
(* publish_odometry_thread, in the main thread.                            *)

StartLoop ==
  /\ main = "waiting"
  /\ event
  /\ main' = "loop"
  /\ UNCHANGED <<lock, recvVars, originVars, copy, published, shutdown>>

StartRound ==
  /\ main = "loop"
  /\ ~shutdown
  /\ main' = "enter"
  /\ UNCHANGED <<lock, recvVars, originVars, copy, published, shutdown>>

MainEnters ==
  /\ main = "enter"
  /\ MayEnter(lock)
  /\ lock' = "main"
  /\ main' = "stamps"
  /\ UNCHANGED <<recvVars, originVars, copy, published, shutdown>>

CopyStamps ==
  /\ main = "stamps"
  /\ copy' = [copy EXCEPT !.t_pos = last.t_pos, !.t_vel = last.t_vel]
  /\ main' = "values"
  /\ UNCHANGED <<lock, recvVars, originVars, published, shutdown>>

CopyValues ==
  /\ main = "values"
  /\ copy' = [copy EXCEPT !.pos = last.pos, !.v = last.v]
  /\ lock' = "free"
  /\ main' = "publish"
  /\ UNCHANGED <<recvVars, originVars, published, shutdown>>

\* Both kinds of report must have been received.
Publish ==
  /\ main = "publish"
  /\ published' = IF copy.t_pos # 0 /\ copy.t_vel # 0
                  THEN published \cup {copy} ELSE published
  /\ main' = "loop"
  /\ UNCHANGED <<lock, recvVars, originVars, copy, shutdown>>

\* The loop's test, or the exception of rate.sleep that main catches.
Finish ==
  /\ main = "loop"
  /\ shutdown
  /\ main' = "finished"
  /\ UNCHANGED <<lock, recvVars, originVars, copy, published, shutdown>>

-----------------------------------------------------------------------------
RosShutdown ==
  /\ ~shutdown
  /\ shutdown' = TRUE
  /\ UNCHANGED <<lock, recvVars, originVars, mainVars>>

Handle == ReceiverEnters \/ WriteStamp \/ WriteValues
Receiver == SessionStarts \/ SessionEnds \/ ReadPosition \/ ReadVelocity \/ Handle
Origin == SendOrigin \/ SetEvent \/ OriginGoes
Main == StartLoop \/ StartRound \/ MainEnters \/ CopyStamps \/ CopyValues \/ Publish \/ Finish

Next == Receiver \/ Origin \/ Main \/ RosShutdown

Spec == Init /\ [][Next]_vars

\* Threads run: a thread that waits for the lock gets it in the end, since
\* the other sleeps, or waits for the sensor, between two uses of it.  The
\* sensor and MAVROS may be silent for ever.
FairSpec ==
  /\ Spec
  /\ WF_vars(WriteStamp \/ WriteValues) /\ SF_vars(ReceiverEnters)
  /\ WF_vars(StartLoop \/ StartRound \/ CopyStamps \/ CopyValues \/ Publish \/ Finish)
  /\ SF_vars(MainEnters)
  /\ WF_vars(SetEvent)

-----------------------------------------------------------------------------
(* A message is one state of the sensor: its position is that of the       *)
(* latest position report, its velocity that of the latest velocity report *)
(* or zero if that one is invalid, although a report is written, and the   *)
(* dictionary copied, in several steps of two threads.                     *)
MessageIsWhole ==
  \A m \in published :
    /\ m.pos = m.t_pos
    /\ m.v = IF velocities[m.t_vel] THEN m.t_vel ELSE 0

(* The bridge as a mailbox.  A report is in it from its stamp on, what is  *)
(* still to be written of it included, and the publisher holds what it has *)
(* begun to copy.                                                          *)
Latest ==
  CASE receiver # "values" -> last
    [] receiver = "values" /\ line.type = "velocity" -> [last EXCEPT !.v = Kept(line)]
    [] OTHER -> [last EXCEPT !.pos = line.n]

Held == IF main = "values" THEN last ELSE copy

Mailbox == INSTANCE OdometryMailbox WITH latest <- Latest, held <- Held, sent <- published

(* The bridge implements the mailbox: what is done under the lock is done  *)
(* at one moment, no report is left out of the dictionary or put into it   *)
(* twice, and an invalid velocity replaces the one before by zeros.        *)
ImplementsMailbox == Mailbox!Spec

(* Odometry goes out only after the origin of the filter has been sent.    *)
OriginFirst == published # {} => origin \in {"sent", "gone"}

(* Every velocity report handled while the bridge runs, once there is a    *)
(* position, is published in the end, or a later one is: neither thread    *)
(* keeps the lock from the other.                                          *)
ReportsGetOut ==
  \A n \in 1..MaxReports :
    (last.t_vel = n /\ last.t_pos # 0 /\ event)
      ~> (shutdown \/ \E m \in published : m.t_vel >= n)

(* Once the main thread publishes, a shutdown ends it, whatever the other  *)
(* threads are doing and whoever holds the lock.                           *)
PublisherFinishes == (event /\ shutdown) ~> main = "finished"
=============================================================================
