------------------------------- MODULE PyDriver -------------------------------
(***************************************************************************)
(* The Python node of dvl_a50.py.  Its timer callback receives one chunk,  *)
(* takes one line at most off _recv_buffer and publishes it.  connect()    *)
(* leaves the socket with a timeout of one second, so a silence of the     *)
(* sensor is a socket.error like any other: the callback closes the socket *)
(* and connects again until that succeeds.  _recv_buffer outlives the      *)
(* connection.                                                             *)
(*                                                                         *)
(* The stream consists of texts and newlines, and a chunk of any number of *)
(* them: where recv() cuts a text makes no difference to the node.         *)
(***************************************************************************)
EXTENDS Integers, Sequences

CONSTANTS
  Reports,      \* what the sensor's lines say
  Newline,
  MaxTexts,     \* bound on the texts the sensor sends
  MaxConnects   \* bound on the connections; the last one is not lost

\* fields: where the first field is that is missing, null or of another type
\* than the message wants, early meaning no later than the altitude.
\* A response is an object without time and ts.  A literal is JSON that is no
\* object, null for one.  A fragment is a text that is not JSON.
ReportType == [type : {"velocity", "position_local", "response", "literal", "fragment"},
               valid : BOOLEAN, altitude : Int, fields : {"good", "early", "late"}]

ASSUME ReportsAssumption == Reports \subseteq ReportType /\ Newline \notin ReportType
ASSUME BoundsAssumption == MaxTexts \in Nat /\ MaxConnects \in Nat

VARIABLES
  pc,            \* spinning, inside connect(), or dead of an exception
  connects,      \* how often connect() has succeeded
  peer,          \* does the sensor keep the connection?
  count,         \* texts sent so far; a text is known by its number
  midline,       \* has it begun a line on this connection?
  wire,          \* sent and not received
  _recv_buffer,  \* received and not taken
  old_altitude,
  received,      \* history: everything received
  taken,         \* history: what was taken off the buffer
  seen,          \* history: the altitudes of valid reports, and the 0.0
  published      \* history: the reports published

vars == <<pc, connects, peer, count, midline, wire, _recv_buffer, old_altitude,
          received, taken, seen, published>>

sensorVars == <<count, midline>>
publishVars == <<old_altitude, seen, published>>

Piece == [text : Reports \cup {Newline}, n : 0..MaxTexts]

TypeOK ==
  /\ pc \in {"connecting", "spinning", "dead"}
  /\ connects \in 0..MaxConnects
  /\ peer \in {"open", "closed"}
  /\ count \in 0..MaxTexts
  /\ midline \in BOOLEAN
  /\ wire \in Seq(Piece)
  /\ _recv_buffer \in Seq(Piece)
  /\ old_altitude \in Nat
  /\ received \in Seq(Piece)
  /\ taken \in Seq(Piece)
  /\ seen \subseteq Int
  /\ published \in Seq([n : 1..MaxTexts, type : {"velocity", "position_local"},
                        altitude : Nat])

Init ==
  /\ pc = "connecting"
  /\ connects = 0
  /\ peer = "closed"
  /\ count = 0
  /\ midline = FALSE
  /\ wire = <<>>
  /\ _recv_buffer = <<>>
  /\ old_altitude = 0
  /\ received = <<>>
  /\ taken = <<>>
  /\ seen = {0}
  /\ published = <<>>

-----------------------------------------------------------------------------
IsNewline(p) == p.text = Newline

HasLine(b) == \E k \in DOMAIN b : IsNewline(b[k])

\* partition cuts b at its piece k, the first newline.
CutsAt(b, k) ==
  /\ k \in DOMAIN b
  /\ IsNewline(b[k])
  /\ \A j \in 1..k - 1 : ~IsNewline(b[j])

Before(b, k) == SubSeq(b, 1, k - 1)

\* What is left of the buffer when a line was taken; forgetting it is easy.
RestForgotten(b, k) == <<>>
Rest(b, k) == SubSeq(b, k + 1, Len(b))

\* A line is JSON if it is one text and that text is; what two connections
\* have left behind is not, nor is a blank line.  A decoder that stops after
\* the first value would take the former.
IsJsonAtStart(line) == line # <<>> /\ line[1].text.type # "fragment"
IsJson(line) == Len(line) = 1 /\ line[1].text.type # "fragment"

\* An altitude is kept, and published, if it was measured; either half of the
\* test can be forgotten.
UsableIfMeasured(r) == r.altitude >= 0
UsableIfValid(r) == r.valid
Usable(r) == r.altitude >= 0 /\ r.valid

\* publish_data on a velocity report: the altitude is kept before the fields
\* behind it are read.
PublishVelocity(p) ==
  LET r == p.text
      altitude == IF Usable(r) THEN r.altitude ELSE old_altitude
  IN  /\ r.type = "velocity"
      /\ r.fields # "early"
      /\ old_altitude' = altitude
      /\ seen' = IF r.valid THEN seen \cup {r.altitude} ELSE seen
      /\ published' = IF r.fields = "good"
           THEN Append(published, [n |-> p.n, type |-> r.type, altitude |-> altitude])
           ELSE published

PublishPosition(p) ==
  /\ p.text.type = "position_local"
  /\ published' = IF p.text.fields = "good"
       THEN Append(published, [n |-> p.n, type |-> p.text.type, altitude |-> 0])
       ELSE published
  /\ UNCHANGED <<old_altitude, seen>>

\* Nothing of the report is used: it has no field of interest, or the first
\* that is read, or the test for it, raises an exception.
PublishNothing(p) ==
  /\ \/ p.text.type \in {"response", "literal"}
     \/ p.text.type = "velocity" /\ p.text.fields = "early"
  /\ UNCHANGED publishVars

\* publish_data raises KeyError, TypeError or AssertionError.
Raises(r) ==
  \/ r.type = "literal"
  \/ r.type \in {"velocity", "position_local"} /\ r.fields # "good"

\* Only json.JSONDecodeError is caught; all the others end the process.
SurvivesNothing(line) == IsJson(line) /\ ~Raises(line[1].text)
Survives(line) == IsJson(line) => ~Raises(line[1].text)

\* timer_callback on a line.
TakeLine(line) ==
  /\ \/ /\ IsJson(line)
        /\ PublishVelocity(line[1]) \/ PublishPosition(line[1]) \/ PublishNothing(line[1])
     \/ ~IsJson(line) /\ UNCHANGED publishVars
  /\ pc' = IF Survives(line) THEN "spinning" ELSE "dead"

-----------------------------------------------------------------------------
(* One attempt of connect() that succeeds; one that fails changes nothing. *)
Connect ==
  /\ pc = "connecting"
  /\ connects < MaxConnects
  /\ connects' = connects + 1
  /\ pc' = "spinning"
  /\ peer' = "open"
  /\ midline' = FALSE
  /\ wire' = <<>>
  /\ UNCHANGED <<count, _recv_buffer, received, taken, publishVars>>

(* A chunk arrives; the first line of the buffer, an old one perhaps, is   *)
(* handled.                                                                *)
Receive ==
  /\ pc = "spinning"
  /\ \E k \in 1..Len(wire) :
       LET chunk == SubSeq(wire, 1, k)
           buffer == _recv_buffer \o chunk
       IN  /\ wire' = SubSeq(wire, k + 1, Len(wire))
           /\ received' = received \o chunk
           /\ \/ \E n \in DOMAIN buffer :
                   /\ CutsAt(buffer, n)
                   /\ TakeLine(Before(buffer, n))
                   /\ _recv_buffer' = Rest(buffer, n)
                   /\ taken' = taken \o SubSeq(buffer, 1, n)
              \/ /\ ~HasLine(buffer)
                 /\ _recv_buffer' = buffer
                 /\ UNCHANGED <<pc, taken, publishVars>>
  /\ UNCHANGED <<connects, peer, sensorVars>>

(* recv() returns nothing, fails, or has waited a second: lines that are   *)
(* complete in the buffer wait as well.                                    *)
Reconnect ==
  /\ pc = "spinning"
  /\ wire = <<>>
  /\ connects < MaxConnects
  /\ pc' = "connecting"
  /\ peer' = "closed"
  /\ UNCHANGED <<connects, sensorVars, wire, _recv_buffer, received, taken, publishVars>>

-----------------------------------------------------------------------------
(* The sensor.                                                             *)
SensorSendsText ==
  /\ peer = "open"
  /\ ~midline
  /\ count < MaxTexts
  /\ count' = count + 1
  /\ \E r \in Reports : wire' = Append(wire, [text |-> r, n |-> count + 1])
  /\ midline' = TRUE
  /\ UNCHANGED <<pc, connects, peer, _recv_buffer, received, taken, publishVars>>

SensorEndsLine ==
  /\ peer = "open"
  /\ midline
  /\ midline' = FALSE
  /\ wire' = Append(wire, [text |-> Newline, n |-> 0])
  /\ UNCHANGED <<pc, connects, peer, count, _recv_buffer, received, taken, publishVars>>

SensorCloses ==
  /\ peer = "open"
  /\ connects < MaxConnects
  /\ peer' = "closed"
  /\ UNCHANGED <<pc, connects, sensorVars, wire, _recv_buffer, received, taken, publishVars>>

Driver == Connect \/ Receive \/ Reconnect
Sensor == SensorSendsText \/ SensorEndsLine \/ SensorCloses

Next == Driver \/ Sensor

Spec == Init /\ [][Next]_vars

-----------------------------------------------------------------------------
(* What has been received is what was taken, line by line, and what still  *)
(* waits: nothing is lost, repeated or reordered when a chunk holds several*)
(* lines, when a line comes in several chunks, or when a connection ends   *)
(* with lines waiting.                                                     *)
LinesConserved == taken \o _recv_buffer = received

\* Piece k of s is a line of its own: it is joined to nothing.
OwnLine(s, k) ==
  /\ ~IsNewline(s[k])
  /\ k = 1 \/ IsNewline(s[k - 1])
  /\ k < Len(s) /\ IsNewline(s[k + 1])

(* Reports are published in the order the sensor sent them, each once, and *)
(* each as a line of its own: a text joined to the end of a lost connection*)
(* is not published.                                                       *)
PublishedInOrder ==
  /\ \A i, j \in DOMAIN published : i < j => published[i].n < published[j].n
  /\ \A i \in DOMAIN published : \E k \in DOMAIN taken :
       taken[k].n = published[i].n /\ OwnLine(taken, k)

\* JSON that publish_data cannot use.
Unusable(r) == r.type = "literal" \/ (r.type \in {"velocity", "position_local"} /\ r.fields # "good")

(* The node dies of the first line it takes that is JSON without being a   *)
(* usable report, and of nothing else: lines that are not JSON leave it    *)
(* alone, whether the sensor sent them or a reconnection made them, even   *)
(* of an unusable report.                                                  *)
DiesOfUnusableLineOnly ==
  {k \in DOMAIN taken : OwnLine(taken, k) /\ Unusable(taken[k].text)}
    = IF pc = "dead" THEN {Len(taken) - 1} ELSE {}

(* An altitude that is published was in a report with a valid velocity.    *)
AltitudeWasValid ==
  \A i \in DOMAIN published :
    published[i].type = "velocity" => published[i].altitude \in seen
=============================================================================
