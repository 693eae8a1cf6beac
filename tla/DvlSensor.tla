------------------------------ MODULE DvlSensor ------------------------------
(***************************************************************************)
(* The C++ node dvl_sensor::DVL_A50 after its connection has been set up:  *)
(* the start-up commands, the 50 ms timer that reads one line at most from *)
(* the sensor's TCP stream, and the subscription that turns ROS commands   *)
(* into lines for the sensor.  The node's callbacks run in one thread; the *)
(* sensor, the network and the ROS clients act between any two of their    *)
(* steps, a recv() of one byte being a step.                               *)
(*                                                                         *)
(* The sensor's output is one growing sequence, and the node has read the  *)
(* first pos tokens of it.  A token is DataByte, or the newline that ends  *)
(* a line, given as what that line says.  receive_buffer holds the         *)
(* positions of its bytes in the sequence, so a text says where it is from.*)
(***************************************************************************)
EXTENDS Integers, Sequences

CONSTANTS
  DataByte,           \* any byte that is not a newline
  Telemetry,          \* what lines the sensor sends of its own accord say
  Requests,           \* ConfigCommand messages clients publish
  MaxLine,            \* 1 MiB, in bytes
  QueueDepth,         \* KeepLast(10) of dvl/config/command
  ConfigureAcoustic,  \* configure_acoustic_on_startup
  AcousticEnabled,    \* startup_acoustic_enabled, "true" or "false"
  RequestConfig,      \* request_config_on_startup
  MaxBytes,           \* bound on the unsolicited part of the stream
  MaxRequests         \* bound on the commands clients publish

Commands == {"set_config", "get_config", "calibrate_gyro", "reset_dead_reckoning"}

Parameters == {"speed_of_sound", "acoustic_enabled", "dark_mode_enabled",
               "mounting_rotation_offset", "range_mode"}

\* A parameter value is given as what it reads as.
Values == {"true", "false", "number", "word", "empty", "none"}

Topics == {"dvl/data", "dvl/position", "dvl/config/status", "dvl/command/response"}

\* What a line says: an answer names its command and, for the properties
\* only, the request it answers.  complete: every field the report needs is
\* there with its type.
Contents == [type : {"velocity", "velocity_water", "position_local", "response", "other"},
             response_to : Commands \cup {"none"},
             complete : BOOLEAN,
             id : Nat]

ASSUME DataByteAssumption == DataByte \notin Contents
ASSUME TelemetryAssumption ==
  Telemetry \subseteq {c \in Contents : c.id = 0}
ASSUME RequestsAssumption ==
  Requests \subseteq [command : Commands \cup {"unknown"},
                      name : Parameters \cup {"mountig_rotation_offset", "unknown", "none"},
                      value : Values]
ASSUME BoundsAssumption ==
  /\ MaxLine \in Nat \ {0}
  /\ QueueDepth \in Nat \ {0}
  /\ MaxBytes \in Nat
  /\ MaxRequests \in Nat
ASSUME StartupAssumption ==
  /\ ConfigureAcoustic \in BOOLEAN
  /\ RequestConfig \in BOOLEAN
  /\ AcousticEnabled \in {"true", "false"}

VARIABLES
  stream,          \* everything the sensor has sent
  pos,             \* how much of it recv() has returned
  receive_buffer,  \* the line being assembled, as positions in stream
  conn,            \* the connection as the kernel sees it
  fault,           \* 0 while the socket may be used
  pc,              \* the callback that runs
  inbox,           \* commands received by the middleware, not yet taken
  nextId,          \* number of the next command a client publishes
  onWire,          \* lines the sensor has received
  served,          \* how many of them it has answered
  refused,         \* commands answered by publish_transport_error
  taken,           \* history: the commands the callback has run for
  parsed,          \* history: each text handed to json::parse, with its newline
  published        \* history: each report, with the newline it came from

vars == <<stream, pos, receive_buffer, conn, fault, pc, inbox, nextId,
          onWire, served, refused, taken, parsed, published>>

sensorVars  == <<stream, served>>
readVars    == <<pos, receive_buffer, parsed, published>>
commandVars == <<inbox, taken, refused, onWire>>

\* set_json_parameter looks the name up, a misspelling of one included.
resolveParameter(name) ==
  IF name = "mountig_rotation_offset" THEN "mounting_rotation_offset"
  ELSE IF name \in Parameters THEN name ELSE "invalid_param"

TypeOK ==
  /\ stream \in Seq({DataByte} \cup Contents)
  /\ pos \in 0..Len(stream)
  /\ receive_buffer \in Seq(Nat)
  /\ conn \in {"none", "open", "closed", "reset"}
  /\ fault \in {0, -1, -10}
  /\ pc \in {"startAcoustic", "startConfig", "idle", "receiving", "stopped"}
  /\ inbox \in Seq([id : Nat, msg : Requests])
  /\ Len(inbox) <= QueueDepth
  /\ nextId \in 1..MaxRequests + 1
  /\ onWire \in Seq([id : Nat, command : Commands,
                    name : Parameters \cup {"invalid_param", "none"}, value : Values])
  /\ served \in 0..Len(onWire)
  /\ refused \subseteq Nat
  /\ taken \subseteq [id : Nat, msg : Requests]
  /\ parsed \in Seq([text : Seq(Nat), nl : Nat])
  /\ published \in Seq([topic : Topics, nl : Nat, id : Nat])

\* What set-up leaves behind: a connected socket, or one given up and closed.
Init ==
  /\ stream = <<>>
  /\ pos = 0
  /\ receive_buffer = <<>>
  /\ \/ conn = "open" /\ fault = 0
     \/ conn = "none" /\ fault = -10
  /\ pc = "startAcoustic"
  /\ inbox = <<>>
  /\ nextId = 1
  /\ onWire = <<>>
  /\ served = 0
  /\ refused = {}
  /\ taken = {}
  /\ parsed = <<>>
  /\ published = <<>>

-----------------------------------------------------------------------------
(* Sending: TCPSocket::Send writes the whole line or reports an error.     *)

\* A connection the peer has shut down still accepts a line and loses it.
SendOutcomes ==
  CASE fault # 0 -> {FALSE}
    [] fault = 0 /\ conn = "open"   -> {TRUE}
    [] fault = 0 /\ conn = "closed" -> {TRUE, FALSE}
    [] OTHER -> {FALSE}

Line(id, command, name, value) ==
  [id |-> id, command |-> command, name |-> name, value |-> value]

\* send_parameter_to_sensor, returning ok.
SendForgetful(line, ok) == ok \in SendOutcomes /\ UNCHANGED onWire
Send(line, ok) ==
  /\ ok \in SendOutcomes
  /\ onWire' = IF ok /\ conn = "open" THEN Append(onWire, line) ELSE onWire

\* The values set_json_parameter can put in the line: none if it throws.  A
\* bool that does not parse is false, and one that meets the end of the text
\* keeps the value the uninitialised variable happened to have.
Encodings(name, value) ==
  LET p == resolveParameter(name)
  IN  {v \in {value, "true", "false"} :
         \/ /\ p \in {"speed_of_sound", "mounting_rotation_offset"}
            /\ value = "number"
            /\ v = value
         \/ /\ p \in {"acoustic_enabled", "dark_mode_enabled"}
            /\ v \in {"true", "false"}
            /\ value = "empty" \/ v = (IF value = "true" THEN "true" ELSE "false")
         \/ p = "range_mode" /\ v = value}

\* set_json_parameter: whether the line went out is not looked at.
SetParameter(id, name, value) ==
  \/ \E v \in Encodings(name, value), ok \in BOOLEAN :
       Send(Line(id, "set_config", resolveParameter(name), v), ok)
  \/ Encodings(name, value) = {} /\ UNCHANGED onWire

-----------------------------------------------------------------------------
(* The end of the constructor.                                             *)

StartAcoustic ==
  /\ pc = "startAcoustic"
  /\ IF ConfigureAcoustic
       THEN SetParameter(0, "acoustic_enabled", AcousticEnabled)
       ELSE UNCHANGED onWire
  /\ pc' = "startConfig"
  /\ UNCHANGED <<sensorVars, readVars, conn, fault, inbox, nextId, refused, taken>>

StartConfig ==
  /\ pc = "startConfig"
  /\ IF RequestConfig
       THEN \E ok \in BOOLEAN : Send(Line(0, "get_config", "none", "none"), ok)
       ELSE UNCHANGED onWire
  /\ pc' = "idle"
  /\ UNCHANGED <<sensorVars, readVars, conn, fault, inbox, nextId, refused, taken>>

-----------------------------------------------------------------------------
(* Commands.                                                               *)

\* A full reader history loses its oldest command.
EnqueueAll(q, m) == Append(q, m)
EnqueueDropNewest(q, m) == IF Len(q) = QueueDepth THEN q ELSE Append(q, m)
Enqueue(q, m) == IF Len(q) = QueueDepth THEN Append(Tail(q), m) ELSE Append(q, m)

\* A client publishes on dvl/config/command; the subscription exists from
\* the first lines of the constructor on.
ClientPublishes ==
  /\ nextId <= MaxRequests
  /\ pc # "stopped"
  /\ \E m \in Requests : inbox' = Enqueue(inbox, [id |-> nextId, msg |-> m])
  /\ nextId' = nextId + 1
  /\ UNCHANGED <<sensorVars, readVars, conn, fault, pc, onWire, refused, taken>>

\* The test of send_parameter_to_sensor without its negation.
CommandInverted(c) ==
  \E ok \in BOOLEAN :
    /\ Send(Line(c.id, "get_config", "none", "none"), ok)
    /\ refused' = IF ok THEN refused \cup {c.id} ELSE refused

\* command_subscriber on the oldest command.
Command(c) ==
  \/ /\ c.msg.command = "set_config"
     /\ SetParameter(c.id, c.msg.name, c.msg.value)
     /\ UNCHANGED refused
  \/ /\ c.msg.command \in Commands \ {"set_config"}
     /\ \E ok \in BOOLEAN :
          /\ Send(Line(c.id, c.msg.command, "none", "none"), ok)
          /\ refused' = IF ok THEN refused ELSE refused \cup {c.id}
  \/ /\ c.msg.command \notin Commands
     /\ UNCHANGED <<onWire, refused>>

TakeCommand ==
  /\ pc = "idle"
  /\ inbox # <<>>
  /\ Command(Head(inbox))
  /\ inbox' = Tail(inbox)
  /\ taken' = taken \cup {Head(inbox)}
  /\ UNCHANGED <<sensorVars, readVars, conn, fault, pc, nextId>>

-----------------------------------------------------------------------------
(* handle_receive.                                                         *)

TimerFires ==
  /\ pc = "idle"
  /\ fault = 0
  /\ pc' = "receiving"
  /\ UNCHANGED <<sensorVars, readVars, commandVars, conn, fault, nextId>>

Receiving == pc = "receiving"

\* The topic a parsed line is published on, by the branches on its type;
\* a report that lacks a field raises an exception before it is published.
Topic(c) ==
  CASE ~c.complete -> "none"
    [] c.complete /\ c.type \in {"velocity", "velocity_water"} -> "dvl/data"
    [] c.complete /\ c.type = "position_local" -> "dvl/position"
    [] c.complete /\ c.type \in {"response", "other"} ->
         CASE c.response_to = "get_config" -> "dvl/config/status"
           [] c.response_to = "none" -> "none"
           [] OTHER -> "dvl/command/response"

\* The tokens first..last of s are bytes of one line.
Data(s, first, last) == \A j \in first..last : s[j] = DataByte

\* A line can be assembled from the token after first on: it is where a line
\* starts, or MaxLine + 1 bytes of the line have been thrown away.
Starts(s, first) ==
  \/ first = 0
  \/ s[first] # DataByte
  \/ first > MaxLine /\ Data(s, first - MaxLine, first)

\* text is the run of bytes of s that ends at last.
Framed(s, text, last) ==
  /\ Len(text) <= last
  /\ \A k \in 1..Len(text) : text[k] = last - Len(text) + k
  /\ Data(s, last - Len(text) + 1, last)
  /\ Starts(s, last - Len(text))

\* The bytes of the line that the newline at n ends, and no others.
IsLine(text, n) ==
  /\ Framed(stream, text, n - 1)
  /\ Len(text) = n - 1 \/ stream[n - 1 - Len(text)] # DataByte

\* json::parse and the dispatch.  A line without its beginning is the end of
\* a JSON object and does not parse.
Parse(text, n) ==
  published' = IF Topic(stream[n]) = "none" \/ ~IsLine(text, n) THEN published
    ELSE Append(published, [topic |-> Topic(stream[n]), nl |-> n, id |-> stream[n].id])

\* A byte that is not a newline; a line of more than MaxLine is thrown away.
BufferKeepsLast(b, n) == IF Len(b) + 1 > MaxLine THEN <<n>> ELSE Append(b, n)
Buffer(b, n) == IF Len(b) + 1 > MaxLine THEN <<>> ELSE Append(b, n)

ReadByte ==
  /\ Receiving
  /\ pos < Len(stream)
  /\ stream[pos + 1] = DataByte
  /\ pos' = pos + 1
  /\ receive_buffer' = Buffer(receive_buffer, pos + 1)
  /\ UNCHANGED <<sensorVars, commandVars, conn, fault, pc, nextId, parsed, published>>

\* A newline ends the callback; an empty line is not parsed.
ReadNewline ==
  /\ Receiving
  /\ pos < Len(stream)
  /\ stream[pos + 1] # DataByte
  /\ pos' = pos + 1
  /\ receive_buffer' = <<>>
  /\ IF receive_buffer = <<>>
       THEN UNCHANGED <<parsed, published>>
       ELSE /\ parsed' = Append(parsed, [text |-> receive_buffer, nl |-> pos + 1])
            /\ Parse(receive_buffer, pos + 1)
  /\ pc' = "idle"
  /\ UNCHANGED <<sensorVars, commandVars, conn, fault, nextId>>

\* A timeout leaves the unfinished line and the connection alone.
KeptForgetful(b) == <<>>
Kept(b) == b
AfterTimeoutFailed(f) == -1
AfterTimeout(f) == f

\* recv() has waited 400 ms for nothing, or a signal ended the wait.
ReadTimesOut ==
  /\ Receiving
  /\ pos = Len(stream)
  /\ conn = "open"
  /\ receive_buffer' = Kept(receive_buffer)
  /\ fault' = AfterTimeout(fault)
  /\ pc' = "idle"
  /\ UNCHANGED <<sensorVars, commandVars, conn, nextId, pos, parsed, published>>

\* recv() returns 0, or fails: the node never uses this connection again.
ReadEnds ==
  /\ Receiving
  /\ pos = Len(stream)
  /\ conn \in {"closed", "reset"}
  /\ fault' = -1
  /\ pc' = "idle"
  /\ UNCHANGED <<sensorVars, readVars, commandVars, conn, nextId>>

-----------------------------------------------------------------------------
(* The sensor and the network.                                             *)

MidLine == stream # <<>> /\ stream[Len(stream)] = DataByte

Outstanding == served < Len(onWire)

\* Bytes of an unsolicited report up to the bound, or the first of an answer.
SensorSendsByte ==
  /\ conn = "open"
  /\ Len(stream) < MaxBytes \/ (Outstanding /\ ~MidLine)
  /\ stream' = Append(stream, DataByte)
  /\ UNCHANGED <<readVars, commandVars, conn, fault, pc, nextId, served>>

SensorReports ==
  /\ conn = "open"
  /\ MidLine
  /\ Len(stream) <= MaxBytes
  /\ \E c \in Telemetry : stream' = Append(stream, c)
  /\ UNCHANGED <<readVars, commandVars, conn, fault, pc, nextId, served>>

\* A newline on its own.
SensorSendsBlank ==
  /\ conn = "open"
  /\ ~MidLine
  /\ Len(stream) < MaxBytes
  /\ stream' = Append(stream, [type |-> "other", response_to |-> "none",
                               complete |-> FALSE, id |-> 0])
  /\ UNCHANGED <<readVars, commandVars, conn, fault, pc, nextId, served>>

\* An answer; one to get_config that failed has no result to report.
SensorAnswers ==
  /\ conn = "open"
  /\ MidLine
  /\ Outstanding
  /\ \E success \in BOOLEAN :
       stream' = Append(stream,
         [type |-> "response",
          response_to |-> onWire[served + 1].command,
          complete |-> success \/ onWire[served + 1].command # "get_config",
          id |-> onWire[served + 1].id])
  /\ served' = served + 1
  /\ UNCHANGED <<readVars, commandVars, conn, fault, pc, nextId>>

PeerEnds ==
  /\ conn = "open"
  /\ conn' \in {"closed", "reset"}
  /\ UNCHANGED <<sensorVars, readVars, commandVars, fault, pc, nextId>>

\* main returns from spin between two callbacks; the destructor closes.
Shutdown ==
  /\ pc = "idle"
  /\ pc' = "stopped"
  /\ conn' = "none"
  /\ UNCHANGED <<sensorVars, readVars, commandVars, fault, nextId>>

Startup == StartAcoustic \/ StartConfig
Read == ReadByte \/ ReadNewline \/ ReadTimesOut \/ ReadEnds
Sensor == SensorSendsByte \/ SensorReports \/ SensorSendsBlank \/ SensorAnswers

Next ==
  \/ Startup \/ ClientPublishes \/ TakeCommand \/ TimerFires \/ Read
  \/ Sensor \/ PeerEnds \/ Shutdown

Spec == Init /\ [][Next]_vars

\* The executor: the thread goes on, the timer comes round, and a command
\* that waits is taken although the timer makes it wait again and again
\* (each collected callback runs before the next collection).
ExecutorFairness ==
  /\ WF_vars(Startup) /\ WF_vars(Read)
  /\ WF_vars(TimerFires) /\ SF_vars(TakeCommand)

\* The sensor answers what it received, a line it began is ended.
SensorFairness ==
  /\ WF_vars(SensorSendsByte /\ Outstanding /\ ~MidLine)
  /\ SF_vars(SensorAnswers)

FairSpec == Spec /\ ExecutorFairness /\ SensorFairness

-----------------------------------------------------------------------------
(* Properties.                                                             *)

(* What handle_receive gives to json::parse is a line of the stream, whole *)
(* and on its own, although its bytes were read by several timer callbacks *)
(* with timeouts between them; only a line longer than MaxLine is given    *)
(* without its beginning, and then MaxLine + 1 bytes before it are missing.*)
LinesIntact ==
  \A i \in DOMAIN parsed :
    /\ Len(parsed[i].text) \in 1..MaxLine
    /\ Framed(stream, parsed[i].text, parsed[i].nl - 1)

(* A client that was told the transport is unavailable is not sent the     *)
(* sensor's answer to that command as well.                                *)
RefusedNeverAnswered ==
  \A i \in DOMAIN published : published[i].id \notin refused

(* The node as a channel that hands on the sensor's lines, each known by   *)
(* its newline: "none" if the line is blank, too long or not a report.     *)
Newlines == {k \in DOMAIN stream : stream[k] # DataByte}

\* n bytes and nothing else precede the newline at k in its line.
HasLength(k, n) ==
  /\ n < k
  /\ Data(stream, k - n, k - 1)
  /\ n = k - 1 \/ stream[k - n - 1] # DataByte

LineTopic(k) ==
  IF \E n \in 1..MaxLine : HasLength(k, n) THEN Topic(stream[k]) ELSE "none"

LineAt(k) == [at |-> k, topic |-> LineTopic(k)]

Written == {LineAt(k) : k \in Newlines}
Handled == {LineAt(k) : k \in {n \in Newlines : n <= pos}}
Out == [i \in DOMAIN published |-> [at |-> published[i].nl, topic |-> published[i].topic]]

Channel == INSTANCE LineChannel WITH written <- Written, handled <- Handled, out <- Out

(* The node implements the channel: every line is published once, in the   *)
(* order sent and on the topic its type calls for, or skipped for a reason *)
(* that lies in the line alone.                                            *)
ImplementsChannel == Channel!Spec

(* Whatever the sensor managed to send is read in the end, even if it      *)
(* closed the connection or reset it right after.                          *)
EventuallyRead ==
  \A n \in 1..MaxBytes : Len(stream) >= n ~> (pos >= n \/ pc = "stopped")

\* The answer is published, or it came in a line that cannot be.
Answered(n) ==
  \/ \E i \in DOMAIN published : published[i].id = n
  \/ \E k \in Newlines : stream[k].id = n /\ LineTopic(k) = "none"

Accepted(n) ==
  /\ n \notin refused
  /\ \E c \in taken : c.id = n /\ c.msg.command \in Commands \ {"set_config"}

(* A query the node accepted is answered on a topic, unless the connection *)
(* ends or the sensor's answer is too long or lacks the configuration.     *)
QueriesAnswered ==
  \A n \in 1..MaxRequests :
    (Accepted(n) /\ conn = "open") ~> (Answered(n) \/ conn # "open")

(* The middleware may drop a command while the constructor is connecting,  *)
(* but never one of the last QueueDepth that clients published, and the    *)
(* timer does not keep the subscription from running.                      *)
NewestTaken ==
  \A n \in 1..MaxRequests :
    nextId > n ~> \/ \E c \in taken : c.id = n
                  \/ nextId > n + QueueDepth
                  \/ pc = "stopped"
=============================================================================
