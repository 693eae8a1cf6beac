--------------------------- MODULE IntegratedBridge ---------------------------
(***************************************************************************)
(* dvl2mavros_posdelta.py: the thread that reads the sensor's lines, keeps *)
(* the latest velocity and pose, and publishes both after every report.    *)
(* The loop that takes lines off tcp_buffer is a step per line, and a      *)
(* report is cached in one step and published in the next: the clock and   *)
(* the sensor go on in between.                                            *)
(*                                                                         *)
(* A piece of the stream is the text of a line, or a newline: recv() may   *)
(* return any number of pieces, and where it cuts a text makes no          *)
(* difference, since a line is not looked at before its newline.  Only the *)
(* end of a connection matters: tcp_buffer outlives it, and what the       *)
(* sensor began to send is followed by the first text of the next one.     *)
(***************************************************************************)
EXTENDS Integers, Sequences

CONSTANTS
  Velocities,   \* texts of velocity reports
  Positions,    \* texts of position_local reports
  Others,       \* JSON objects of other types
  Literals,     \* JSON that is no object, such as null
  Fragments,    \* texts that are not JSON
  Newline,
  VelMaxAge,    \* ticks, 150 ms
  PoseMaxAge,   \* ticks, 500 ms
  MaxTokens,    \* bound on the texts the sensor sends
  MaxTime,      \* bound on the clock
  MaxConnects   \* bound on the connections; the last one is not lost

Texts == Velocities \cup Positions \cup Others \cup Literals \cup Fragments

ASSUME TextsAssumption == Newline \notin Texts
ASSUME BoundsAssumption ==
  /\ VelMaxAge \in Nat /\ PoseMaxAge \in Nat
  /\ MaxTokens \in Nat /\ MaxTime \in Nat /\ MaxConnects \in Nat

VARIABLES
  clock,
  pc,           \* between connections, in recv(), at the buffer, or publishing
  connects,     \* how often the thread has connected
  count,        \* texts sent so far; a text is known by its number
  midline,      \* has the sensor begun a line on this connection?
  wire,         \* pieces sent and not received
  tcp_buffer,   \* pieces received and not parsed
  velocity,     \* the latest velocity: which text, and when it was parsed
  pose,         \* the latest pose
  parsed,       \* history: numbers of the lines handled
  published,    \* the latest message
  idle,         \* history: ticks the thread has waited with nothing to do
  arrived,      \* history: idle when the end of text n was received
  broken        \* history: has it broken off a chunk, and received none since?

sensorVars == <<count, midline>>
cacheVars == <<velocity, pose, parsed>>
arrivalVars == <<idle, arrived, broken>>
vars == <<clock, pc, connects, sensorVars, wire, tcp_buffer, cacheVars, published, arrivalVars>>

None == [line |-> 0, at |-> 0]

Piece == [text : Texts \cup {Newline}, n : 0..MaxTokens]
Sample == [line : 0..MaxTokens, at : 0..MaxTime]
Nothing == [velocity |-> None, pose |-> None, at |-> 0]

TypeOK ==
  /\ clock \in 0..MaxTime
  /\ pc \in {"connecting", "receiving", "parsing", "publishing"}
  /\ connects \in 0..MaxConnects
  /\ count \in 0..MaxTokens
  /\ midline \in BOOLEAN
  /\ wire \in Seq(Piece)
  /\ tcp_buffer \in Seq(Piece)
  /\ velocity \in Sample
  /\ pose \in Sample
  /\ parsed \in Seq(1..MaxTokens)
  /\ published \in [velocity : Sample, pose : Sample, at : 0..MaxTime]
  /\ idle \in 0..MaxTime
  /\ arrived \in [1..MaxTokens -> 0..MaxTime]
  /\ broken \in BOOLEAN

Init ==
  /\ clock = 0
  /\ pc = "connecting"
  /\ connects = 0
  /\ count = 0
  /\ midline = FALSE
  /\ wire = <<>>
  /\ tcp_buffer = <<>>
  /\ velocity = None
  /\ pose = None
  /\ parsed = <<>>
  /\ published = Nothing
  /\ idle = 0
  /\ arrived = [n \in 1..MaxTokens |-> 0]
  /\ broken = FALSE

-----------------------------------------------------------------------------
IsNewline(p) == p.text = Newline

HasLine(b) == \E k \in DOMAIN b : IsNewline(b[k])

\* The first line of b ends at its piece k.
EndsLine(b, k) ==
  /\ k \in DOMAIN b
  /\ IsNewline(b[k])
  /\ \A j \in 1..k - 1 : ~IsNewline(b[j])

LineTo(b, k) == SubSeq(b, 1, k - 1)

\* What split leaves of the buffer; a slip would leave the line in it as well.
RestPutBack(b, k) == b
Rest(b, k) == SubSeq(b, k + 1, Len(b))

\* A line is JSON if it is one text and that text is.
IsJson(line) == Len(line) = 1 /\ line[1].text \notin Fragments

-----------------------------------------------------------------------------
Connect ==
  /\ pc = "connecting"
  /\ connects < MaxConnects
  /\ pc' = "receiving"
  /\ connects' = connects + 1
  /\ midline' = FALSE
  /\ wire' = <<>>
  /\ UNCHANGED <<clock, count, tcp_buffer, cacheVars, published, arrivalVars>>

\* The texts of b whose newline is behind its piece k.
EndedAfter(b, k) == {b[j].n : j \in {i \in k..Len(b) - 1 : i > 0 /\ IsNewline(b[i + 1])}}

\* recv() returns some of what is there.
Receive ==
  /\ pc = "receiving"
  /\ \E k \in 1..Len(wire) :
       /\ tcp_buffer' = tcp_buffer \o SubSeq(wire, 1, k)
       /\ wire' = SubSeq(wire, k + 1, Len(wire))
  /\ pc' = "parsing"
  /\ arrived' = [n \in 1..MaxTokens |->
       IF n \in EndedAfter(tcp_buffer', Len(tcp_buffer)) THEN idle ELSE arrived[n]]
  /\ broken' = FALSE
  /\ UNCHANGED <<clock, connects, sensorVars, cacheVars, published, idle>>

\* recv() returns nothing, times out or fails, and what was on the way is
\* lost; tcp_buffer is not.
LoseConnection ==
  /\ pc = "receiving"
  /\ connects < MaxConnects
  /\ pc' = "connecting"
  /\ UNCHANGED <<clock, connects, sensorVars, wire, tcp_buffer, cacheVars, published, arrivalVars>>

-----------------------------------------------------------------------------
(* The loop over the lines of the buffer.                                  *)

SkipBlank ==
  /\ pc = "parsing"
  /\ tcp_buffer # <<>>
  /\ IsNewline(tcp_buffer[1])
  /\ tcp_buffer' = Rest(tcp_buffer, 1)
  /\ UNCHANGED <<clock, pc, connects, sensorVars, wire, cacheVars, published, arrivalVars>>

\* A line that is not JSON is put back in front, and ends the loop.
PutBack ==
  /\ pc = "parsing"
  /\ \E k \in DOMAIN tcp_buffer :
       /\ EndsLine(tcp_buffer, k)
       /\ LineTo(tcp_buffer, k) # <<>>
       /\ ~IsJson(LineTo(tcp_buffer, k))
  /\ pc' = "receiving"
  /\ UNCHANGED <<clock, connects, sensorVars, wire, tcp_buffer, cacheVars, published, arrivalVars>>

\* The time a sample is cached with, not the time it will be too old.
StampExpiry == clock + VelMaxAge
Stamp == clock

\* A line off the buffer: a report updates its cache and will be published.
TakeLine ==
  /\ pc = "parsing"
  /\ \E k \in DOMAIN tcp_buffer :
       LET p == tcp_buffer[1]
           s == [line |-> p.n, at |-> Stamp]
       IN  /\ EndsLine(tcp_buffer, k)
           /\ IsJson(LineTo(tcp_buffer, k))
           /\ p.text \notin Literals
           /\ tcp_buffer' = Rest(tcp_buffer, k)
           /\ parsed' = Append(parsed, p.n)
           /\ velocity' = IF p.text \in Velocities THEN s ELSE velocity
           /\ pose' = IF p.text \in Positions THEN s ELSE pose
           /\ pc' = IF p.text \in Others THEN "parsing" ELSE "publishing"
  /\ UNCHANGED <<clock, connects, sensorVars, wire, published, arrivalVars>>

\* data.get raises an AttributeError, which only the handler around the
\* connection catches: the line is gone, and those behind it wait.
BreakOff ==
  /\ pc = "parsing"
  /\ \E k \in DOMAIN tcp_buffer :
       /\ EndsLine(tcp_buffer, k)
       /\ IsJson(LineTo(tcp_buffer, k))
       /\ tcp_buffer[1].text \in Literals
       /\ tcp_buffer' = Rest(tcp_buffer, k)
  /\ pc' = "connecting"
  /\ broken' = TRUE
  /\ UNCHANGED <<clock, connects, sensorVars, wire, cacheVars, published, idle, arrived>>

\* Every chunk is searched to its end, although each line may publish.
AfterPublishOnce == "receiving"
AfterPublish == "parsing"

FreshEnough(s, age) == s # None
Fresh(s, age) == s # None /\ clock - s.at <= age

\* publish_integrated_data: nothing without a fresh velocity, and the pose
\* only while it is fresh.
Publish ==
  /\ pc = "publishing"
  /\ published' = IF Fresh(velocity, VelMaxAge)
       THEN [velocity |-> velocity, pose |-> IF Fresh(pose, PoseMaxAge) THEN pose ELSE None,
             at |-> clock]
       ELSE published
  /\ pc' = AfterPublish
  /\ UNCHANGED <<clock, connects, sensorVars, wire, tcp_buffer, cacheVars, arrivalVars>>

EndOfLines ==
  /\ pc = "parsing"
  /\ ~HasLine(tcp_buffer)
  /\ pc' = "receiving"
  /\ UNCHANGED <<clock, connects, sensorVars, wire, tcp_buffer, cacheVars, published, arrivalVars>>

-----------------------------------------------------------------------------
SensorSendsText ==
  /\ pc # "connecting"
  /\ ~midline
  /\ count < MaxTokens
  /\ count' = count + 1
  /\ \E t \in Texts : wire' = Append(wire, [text |-> t, n |-> count + 1])
  /\ midline' = TRUE
  /\ UNCHANGED <<clock, pc, connects, tcp_buffer, cacheVars, published, arrivalVars>>

SensorEndsLine ==
  /\ pc # "connecting"
  /\ midline
  /\ midline' = FALSE
  /\ wire' = Append(wire, [text |-> Newline, n |-> 0])
  /\ UNCHANGED <<clock, pc, connects, count, tcp_buffer, cacheVars, published, arrivalVars>>

Tick ==
  /\ clock < MaxTime
  /\ clock' = clock + 1
  /\ idle' = IF pc \in {"receiving", "connecting"} /\ ~broken THEN idle + 1 ELSE idle
  /\ UNCHANGED <<pc, connects, sensorVars, wire, tcp_buffer, cacheVars, published, arrived, broken>>

Parser == SkipBlank \/ PutBack \/ TakeLine \/ BreakOff \/ Publish \/ EndOfLines
Reader == Connect \/ Receive \/ LoseConnection \/ Parser

Next == Reader \/ SensorSendsText \/ SensorEndsLine \/ Tick

Spec == Init /\ [][Next]_vars

-----------------------------------------------------------------------------
(* Lines are handled in the order sent and no line is handled twice, even  *)
(* though a line can be put back into the buffer and the buffer outlives   *)
(* the connection.                                                         *)
NoLineTwice ==
  \A i, j \in DOMAIN parsed : i < j => parsed[i] < parsed[j]

\* How much of the time since a report came the thread has waited.
Age(s) == idle - arrived[s.line]

PublishesFresh(m) == Age(m.velocity) <= VelMaxAge /\ (m.pose # None => Age(m.pose) <= PoseMaxAge)

(* What is published was received within its limit, whatever time it was   *)
(* stamped with: no velocity goes out that came more than VelMaxAge before,*)
(* and no pose that came more than PoseMaxAge before, through silences and *)
(* reconnections.  Only the time is not counted in which the thread was    *)
(* busy with a chunk, or kept the rest of one it had broken off.           *)
PublishedFresh == [][published' # published => PublishesFresh(published')]_vars

(* While the thread waits for more, a complete line waits with it only     *)
(* behind one that is not JSON, be it the sensor's or the end of a lost    *)
(* connection joined to the first text of the next: however the lines were *)
(* cut into chunks, the chunk that completes a report gets it handled.  The*)
(* one exception are lines behind a literal: they wait for the chunk that  *)
(* is received next.                                                       *)
OnlyMalformedWaits ==
  pc \in {"receiving", "connecting"} /\ ~broken => \A k \in DOMAIN tcp_buffer :
    EndsLine(tcp_buffer, k) =>
      LineTo(tcp_buffer, k) # <<>> /\ ~IsJson(LineTo(tcp_buffer, k))

(* "Line parser hardened: \r\n, JSON fragments" (line 130): no report that *)
(* was received with its newline waits in the buffer for more.             *)
LinesHandledAtOnce ==
  pc = "receiving" => \A k \in 1..Len(tcp_buffer) - 1 :
    ~ /\ tcp_buffer[k].text \notin Fragments \cup {Newline}
      /\ k > 1 => IsNewline(tcp_buffer[k - 1])
      /\ IsNewline(tcp_buffer[k + 1])
=============================================================================
