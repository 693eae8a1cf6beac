----------------------------- MODULE LifecycleDvl -----------------------------
(***************************************************************************)
(* The managed node composition::LifecycleDVL: the transition callbacks    *)
(* and the 50 ms timer, which one thread of the component container runs   *)
(* one at a time, against a sensor that sends lines and may close.         *)
(*                                                                         *)
(* on_timer ignores what Receive returns.  When nothing was received the   *)
(* byte of the call before is appended again, so a line with a gap of more *)
(* than 300 ms in it has a byte too many, and one that comes after such a  *)
(* gap starts with a NUL.  A byte too many may be a digit of a number: the *)
(* line parses, and says something the sensor has not sent.                *)
(***************************************************************************)
EXTENDS Integers, Sequences

CONSTANTS
  Byte,          \* any byte that is not a newline
  Reports,       \* what the sensor's lines say
  Garbled,       \* altitudes that a number with a digit repeated may be read as
  MaxTokens,     \* bound on what the sensor sends on one connection
  MaxConfigures  \* bound on the calls of on_configure

\* complete: all fields after the altitude are there.
ReportType == [type : {"velocity", "position_local", "other"},
               valid : BOOLEAN, altitude : Int, complete : BOOLEAN]

ASSUME ReportsAssumption == Reports \subseteq ReportType /\ Byte \notin ReportType /\ Garbled \subseteq Int
ASSUME BoundsAssumption ==
  MaxTokens \in Nat /\ MaxConfigures \in Nat

Transitions == {"configure", "activate", "deactivate", "cleanup", "shutdown"}

VARIABLES
  state,         \* primary state of the managed node
  request,       \* the transition a client has asked for, "none" when answered
  configures,    \* how often on_configure has run
  fault,         \* result of the connection loop
  sock,          \* the socket tcpSocket owns
  peer,          \* does the sensor still send?
  sent,          \* how many tokens the sensor has sent on this connection
  rx,            \* what the kernel has received and recv() not returned
  pc,            \* is on_timer in its loop?
  str,           \* what is wrong with the line being assembled
  old_altitude,  \* the altitude a report without one is given
  handled        \* history: the reports the node has made something of

vars == <<state, request, configures, fault, sock, peer, sent, rx, pc, str,
          old_altitude, handled>>

connVars == <<configures, fault, sock>>
peerVars == <<peer, sent>>
readVars == <<pc, str, old_altitude, handled>>

\* exact: no byte of the line was repeated.  altitude: what the message got.
Entry == [sent : Reports, exact : BOOLEAN, altitude : Int, published : BOOLEAN]

TypeOK ==
  /\ state \in {"unconfigured", "inactive", "active", "finalized"}
  /\ request \in Transitions \cup {"none"}
  /\ configures \in 0..MaxConfigures
  /\ fault \in {1, 0, -10}
  /\ sock \in {"none", "created", "connected", "closed"}
  /\ peer \in {"open", "closed"}
  /\ sent \in 0..MaxTokens
  /\ rx \in Seq({Byte} \cup Reports)
  /\ pc \in {"idle", "reading"}
  /\ str \in {"empty", "exact", "nul", "repeated"}
  /\ old_altitude \in Int
  /\ handled \in Seq(Entry)

Init ==
  /\ state = "unconfigured"
  /\ request = "none"
  /\ configures = 0
  /\ fault = 1
  /\ sock = "none"
  /\ peer = "closed"
  /\ sent = 0
  /\ rx = <<>>
  /\ pc = "idle"
  /\ str = "empty"
  /\ old_altitude = 0
  /\ handled = <<>>

-----------------------------------------------------------------------------
(* Transitions.                                                            *)

\* change_state is a service: it is called whenever a client likes.
ClientRequests ==
  /\ request = "none"
  /\ request' \in Transitions
  /\ UNCHANGED <<state, connVars, peerVars, rx, readVars>>

Answers(t, goal) ==
  /\ pc = "idle"
  /\ request = t
  /\ request' = "none"
  /\ state' = goal

\* Create() fails; the callback returns FAILURE.
ConfigureNoSocket ==
  /\ state = "unconfigured"
  /\ Answers("configure", "unconfigured")
  /\ configures < MaxConfigures
  /\ configures' = configures + 1
  /\ sock' = "none"
  /\ UNCHANGED <<fault, peerVars, rx, readVars>>

\* The loop runs while fault # 0, and ends connected or given up (TcpConnect).
Configure ==
  /\ state = "unconfigured"
  /\ \/ /\ fault # 0
        /\ fault' \in {0, -10}
        /\ sock' = IF fault' = 0 THEN "connected" ELSE "closed"
     \/ /\ fault = 0
        /\ fault' = 0
        /\ sock' = "created"
  /\ Answers("configure", IF fault' = -10 THEN "unconfigured" ELSE "inactive")
  /\ configures < MaxConfigures
  /\ configures' = configures + 1
  /\ peer' = IF sock' = "connected" THEN "open" ELSE "closed"
  /\ sent' = 0
  /\ rx' = <<>>
  /\ UNCHANGED readVars

Activate ==
  /\ state = "inactive"
  /\ Answers("activate", "active")
  /\ UNCHANGED <<connVars, peerVars, rx, readVars>>

Deactivate ==
  /\ state = "active"
  /\ Answers("deactivate", "inactive")
  /\ UNCHANGED <<connVars, peerVars, rx, readVars>>

\* The mark on_cleanup leaves for the next on_configure.
CleanedKeepsFault(f) == f
CleanedAsLost(f) == -1
Cleaned(f) == 1

Cleanup ==
  /\ state = "inactive"
  /\ Answers("cleanup", "unconfigured")
  /\ fault' = Cleaned(fault)
  /\ sock' = "closed"
  /\ rx' = <<>>
  /\ peer' = "closed"
  /\ UNCHANGED <<configures, sent, readVars>>

\* The socket stays open.
Shutdown ==
  /\ state # "finalized"
  /\ Answers("shutdown", "finalized")
  /\ UNCHANGED <<connVars, peerVars, rx, readVars>>

\* The state machine refuses a transition that does not start in its state.
Refuse ==
  /\ \/ request = "configure"  /\ state # "unconfigured"
     \/ request = "configure"  /\ configures = MaxConfigures
     \/ request \in {"activate", "cleanup"} /\ state # "inactive"
     \/ request = "deactivate" /\ state # "active"
     \/ request = "shutdown"   /\ state = "finalized"
  /\ Answers(request, state)
  /\ UNCHANGED <<connVars, peerVars, rx, readVars>>

Transition ==
  \/ ConfigureNoSocket \/ Configure \/ Activate \/ Deactivate
  \/ Cleanup \/ Shutdown \/ Refuse

-----------------------------------------------------------------------------
(* on_timer.                                                               *)

TimerFires ==
  /\ pc = "idle"
  /\ state = "active"
  /\ pc' = "reading"
  /\ str' = "empty"
  /\ UNCHANGED <<state, request, connVars, peerVars, rx, old_altitude, handled>>

Reading == pc = "reading" /\ sock = "connected"

ReadByte ==
  /\ Reading
  /\ rx # <<>>
  /\ Head(rx) = Byte
  /\ rx' = Tail(rx)
  /\ str' = IF str = "empty" THEN "exact" ELSE str
  /\ UNCHANGED <<state, request, connVars, peerVars, pc, old_altitude, handled>>

\* recv() returns -1 after 300 ms, or 0 at once when the sensor has closed.
ReadNothing ==
  /\ Reading
  /\ rx = <<>>
  /\ str' = CASE str = "empty" -> "nul"
              [] str = "exact" -> "repeated"
              [] OTHER -> str
  /\ UNCHANGED <<state, request, connVars, peerVars, rx, pc, old_altitude, handled>>

\* What the parser may make of the assembled line.  Repeated bytes can change
\* the altitude, though not its sign, and the name of a field, which is then
\* missing; more often than not the line does not parse at all.
Nothing == [type |-> "other", valid |-> FALSE, altitude |-> 0, complete |-> FALSE]

Misread(r) ==
  {x \in [type : {r.type}, valid : {r.valid}, complete : {r.complete, FALSE},
          altitude : {r.altitude} \cup Garbled] : x.altitude >= 0 <=> r.altitude >= 0}

Readings(s, r) ==
  CASE s = "exact" -> {r}
    [] s = "repeated" -> {Nothing} \cup Misread(r)
    [] OTHER -> {Nothing}

GoodAnyAltitude(r) == r.altitude >= 0
Good(r) == r.altitude >= 0 /\ r.valid

Handles(line, r, altitude) ==
  handled' = Append(handled, [sent |-> line, exact |-> str = "exact",
                              altitude |-> altitude, published |-> r.complete])

\* The try block on what the parser has made of a line: the altitude is kept
\* before the fields that may be missing are read.
Velocity(line, r) ==
  /\ r.type = "velocity"
  /\ old_altitude' = IF Good(r) THEN r.altitude ELSE old_altitude
  /\ Handles(line, r, old_altitude')

Position(line, r) ==
  /\ r.type = "position_local"
  /\ Handles(line, r, 0)
  /\ UNCHANGED old_altitude

ReadNewline ==
  /\ Reading
  /\ rx # <<>>
  /\ Head(rx) # Byte
  /\ rx' = Tail(rx)
  /\ pc' = "idle"
  /\ \E r \in Readings(str, Head(rx)) :
       \/ Velocity(Head(rx), r)
       \/ Position(Head(rx), r)
       \/ r.type = "other" /\ UNCHANGED <<old_altitude, handled>>
  /\ str' = "empty"
  /\ UNCHANGED <<state, request, connVars, peerVars>>

Read == ReadByte \/ ReadNothing \/ ReadNewline

-----------------------------------------------------------------------------
(* The sensor.                                                             *)
SensorSends ==
  /\ peer = "open"
  /\ sent < MaxTokens
  /\ sent' = sent + 1
  /\ \E token \in {Byte} \cup Reports : rx' = Append(rx, token)
  /\ UNCHANGED <<state, request, connVars, peer, readVars>>

SensorCloses ==
  /\ peer = "open"
  /\ peer' = "closed"
  /\ UNCHANGED <<state, request, connVars, sent, rx, readVars>>

Executor == Transition \/ TimerFires \/ Read

Next == ClientRequests \/ Executor \/ SensorSends \/ SensorCloses

Spec == Init /\ [][Next]_vars

\* The container's thread goes on, and takes a request that waits although
\* the timer is ready as well, again and again.
FairSpec == Spec /\ WF_vars(Read) /\ WF_vars(TimerFires) /\ SF_vars(Transition)

-----------------------------------------------------------------------------
(* A node that reached inactive or active has a socket that this set-up,   *)
(* not an earlier one, has connected, however often it was configured,     *)
(* cleaned up and configured again: on_configure skips the connection loop *)
(* when fault is left at 0.                                                *)
ConfiguredMeansConnected ==
  state \in {"inactive", "active"} => fault = 0 /\ sock = "connected"

\* a is what the newest of the first n entries of h that measured an altitude
\* says, or the 0.0 of before.  With a repeated byte only the sign is sure.
Measured(r) == r.type = "velocity" /\ r.valid /\ r.altitude >= 0

IsLastMeasured(h, a, n) ==
  \/ a = 0 /\ \A k \in 1..n : ~Measured(h[k].sent)
  \/ \E k \in 1..n :
       /\ Measured(h[k].sent)
       /\ \A j \in k + 1..n : ~Measured(h[j].sent)
       /\ a >= 0
       /\ h[k].exact => a = h[k].sent.altitude

(* The altitude a velocity report is published with is the one the sensor  *)
(* sent last in a report with a valid velocity, in this report or in an    *)
(* earlier one, of an earlier session perhaps, and perhaps one that was    *)
(* not published itself for a field it lacks; the exception is a line with *)
(* a byte repeated after a timeout, which may have changed its altitude    *)
(* and that of the reports after it until the next one that measures.      *)
AltitudeIsLastMeasured ==
  \A i \in DOMAIN handled :
    handled[i].sent.type = "velocity" /\ handled[i].published
      => IsLastMeasured(handled, handled[i].altitude, i)

(* README, "Lifecycle management": states can be changed by invoking a     *)
(* transition; a client's request is answered.                             *)
RequestsAnswered == request # "none" ~> request = "none"
=============================================================================
