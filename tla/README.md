# The DVL A50 driver and its bridges in TLA+

This directory holds TLA+ models of the software in this repository: a ROS 2
driver for the Water Linked DVL A50 in three forms (a C++ node, a managed C++
node, a Python node) and the Python scripts that hand the sensor's reports to an
autopilot. TLC checks the models on small instances, and TLAPS proves some of
their properties for every value of the constants.

Paths below are relative to the repository's root.

## The system

All programs are clients of one sensor, which accepts TCP connections on port
16171 and sends JSON objects, one per line: `velocity` reports, `position_local`
(dead reckoning) reports, and `response` objects to the commands it receives on
the same connection. No program persists anything. The hard parts are the byte
stream (lines cut anywhere, silences, ends of the connection), the blocking calls
inside single-threaded executors, and the threads of the scripts.

| part | state | operations | interacts with |
|---|---|---|---|
| connection set-up: `TCPSocket` (`include/dvl_a50/tcpsocket.hpp`) and the retry loop (`src/dvl-sensor.cpp:50-91`, repeated in `src/lifecycle_dvl_component.cpp:57-112`) | descriptor, blocking mode, `fault`, `error_code`, `first_time_error` | `Create`, `Connect`, `Close`, the loop | the kernel's non-blocking connect |
| C++ node `DVL_A50` (`src/dvl-sensor.cpp`) | `fault`, `receive_buffer`, reader history of `dvl/config/command` | start-up commands, `handle_receive` (50 ms timer), `command_subscriber`, destructor | sensor, ROS clients, executor |
| managed node `LifecycleDVL` (`src/lifecycle_dvl_component.cpp`) | lifecycle state, `fault`, `tcpSocket`, `old_altitude` | five transition callbacks, `on_timer` | sensor, clients of `change_state` |
| integrated-data bridge (`scripts/dvl2mavros_posdelta.py`) | `tcp_buffer`, cached velocity and pose with times | receiving thread, `publish_integrated_data` | sensor, MAVROS |
| MAVLink injector (`scripts/dvl2mavlink.py`) | `last` under a lock, `origin_set` | receiving thread, `connect_target`, `set_ekf_origin`, `send_vision_position_delta` | sensor, autopilot, wall clock |
| odometry bridge (`scripts/dvl2mavros_odom.py`) | `_last` under `_lock`, an event | receiving, origin and publishing threads | sensor, MAVROS, ROS shutdown |
| Python node (`scripts/dvl_a50.py`) | `_recv_buffer`, `old_altitude`, socket | `connect`, `getData`, `timer_callback`, `publish_data` | sensor, executor |
| speed and pose bridges (`scripts/dvl2mavros_speed.py`, `scripts/dvl2mavros_pose.py`) | the latest report under a lock, the derived velocity, the previous report | receiving and publishing threads | sensor, MAVROS |
| one-shot tools (`scripts/dvl_reset.py`, `scripts/dvl_config_tool.py`) | a socket, the bytes of one line, a deadline | one command and one line, or two for `--set` | sensor, exit code |
| start script (`scripts/dvl_start.sh`) | what it has reached | reset, pause, `exec` of the integrated-data bridge | reset tool, bridge, sensor |
| launch files, serial test, build files | see "Not modelled" | | |

What makes each part correct, in a phrase: a set-up decides, in bounded time, and
leaves a usable socket; the C++ node hands on every line once, in order, and tells
a client either that a command failed or what the sensor answered; the managed
node stays responsive and is never active without a connection; the bridges
publish nothing stale, torn, repeated out of order, or about reports that do not
belong together; the Python node loses no line between connections; a tool reports
no success that did not happen and comes to an end; the start script starts its
bridge at a position that has been zeroed.

## Modules

| module | models | kind |
|---|---|---|
| `TcpConnect` | `TCPSocket::Create`, `Connect` and the loop around it, with the kernel's side of a pending attempt | component |
| `DvlSensor` | the C++ node after set-up, with sensor, network and clients | component |
| `LineChannel` | what the node promises about lines | abstract specification |
| `LifecycleDvl` | the managed node | component |
| `IntegratedBridge` | `dvl2mavros_posdelta.py` | component |
| `OneShotTool` | `dvl_reset.py`, `dvl_config_tool.py`, and what the sensor does with their commands | component |
| `StartScript` | `dvl_start.sh`: `OneShotTool`, then `IntegratedBridge`, at one sensor | composition |
| `SampleBridge` | `dvl2mavros_speed.py` and `dvl2mavros_pose.py` | component |
| `MavlinkInjector` | `dvl2mavlink.py` | component |
| `OdomBridge` | `dvl2mavros_odom.py` | component |
| `OdometryMailbox` | what the odometry bridge promises of its dictionary | abstract specification |
| `PyDriver` | `dvl_a50.py` | component |
| `MC<component>` | values of the constants for TLC | instance |
| `<component>_proofs` (`TcpConnect`, `DvlSensor`, `LifecycleDvl`, `MavlinkInjector`, `OdomBridge`, `SampleBridge`, `StartScript`, `PyDriver`) | theorems | proofs |

Names of variables and definitions are the code's where it has one (`fault`,
`error_code`, `receive_buffer`, `resolveParameter`, `_recv_buffer`,
`old_altitude`). Variables marked "history" in the modules exist for the
properties only; no guard reads them. Some definitions are preceded by a second
one with a longer name (`Buffer` by `BufferKeepsLast`): it is what a slip in that
line of code would amount to, and it is there to show that a property notices.

### TcpConnect

One action per way `Connect` can return, by the state of the socket in the
kernel: an attempt starts and ends at once or goes to `select()`; an attempt is
pending already (error 114); one has succeeded or failed in the meantime.
`SelectReady`, `SelectGivesUp` and `SelectFails` are the ways out of `select()`.
`fcntl()` and `setsockopt()` fail on a bad descriptor only, which is what a failed
`Create` leaves (`ConnectNotTried`). After each
return `CheckAlready`, `CheckAborted` or `CheckOther` is the body of the loop, by
the error code it reads, which a successful `Connect` does not reset.
`HandshakeCompletes` and `HandshakeFails` are the kernel's, at any time.
`elapsed` is the time since `first_time_error` in seconds: sleeps add 2,
`select()` adds any amount up to 5.

### DvlSensor and LineChannel

`stream` is everything the sensor has sent, as tokens: `DataByte`, or the newline
that ends a line with what that line says. `pos` is how far `recv()` has got, and
`receive_buffer` keeps the positions of its bytes, so that every text knows where
in the stream it came from. A `recv()` of one byte is one step (`ReadByte`,
`ReadNewline`, `ReadTimesOut`, `ReadEnds`), and the sensor, the network and the
clients act between any two. `handle_receive` and `command_subscriber` exclude
each other as callbacks of one thread do (`pc`). `TakeCommand` is
`command_subscriber` with everything it calls: `resolveParameter`,
`set_json_parameter`, `send_parameter_to_sensor` and `Send`, whose outcome depends
on the connection: a line written to a connection the peer has closed may be
accepted and lost.

`LineChannel` says the node's promise without bytes, timeouts or callbacks: lines
are handled one at a time in order, and a line is published on its topic once or
has none. `ImplementsChannel` is the refinement. A line is known by the place of its
newline: `Written` are the lines of the stream, `Handled` those up to `pos`, `Out`
what `published` says of lines. Whether a line has a topic is a fact about the
stream alone (`LineTopic`: its type, and a length of 1 to `MaxLine`), not about
what the node did with it. `LineChannel!Complete` is what follows for subscribers.
Lines the sensor sends of its own accord have `id` 0, answers that of the request
they answer; no guard reads it.

### LifecycleDvl

Transition callbacks and `on_timer` share one thread. `on_timer` leaves its loop
only at a newline, so between `TimerFires` and `ReadNewline` no transition is
answered. The connection loop is abstracted to its outcomes, which `TcpConnect`
justifies (`DoneIsDecided`). `ReadNothing` keeps the effect of an ignored
`Receive` result: the previous byte once more, or a NUL at the beginning. What the
parser makes of a line with a byte too many is one of its `Readings`: nothing, as
a rule, or a report whose altitude has a digit twice (`Garbled`) or that lacks a
field, because the byte was in a name. The sign stays, as a second minus is no
number. Reports of type `velocity_water` are read like those of type `velocity`.

### IntegratedBridge and PyDriver

Texts are numbered, so that a property can say which report a published value came
from. A chunk is any number of texts and newlines; where `recv()` cuts inside a
text makes no difference to code that looks at a line only when its newline is
there, except at the end of a connection, and there the unfinished text stays in
the buffer and meets the first text of the next connection.

`IntegratedBridge` takes the loop over the buffer a line at a time (`SkipBlank`,
`PutBack`, `TakeLine`, `BreakOff`, `EndOfLines`), and `Publish` is a step after `TakeLine`: the
time that decides about ages is read then, and may have moved on. `PyDriver`
handles one line at most per `recv()`, as `timer_callback` does.

A line may be JSON without being a report. To the bridge, JSON that is no object
(`Literals`: think of `null`) is an exception outside the inner `try`, which costs
the connection but not the buffer (`BreakOff`). In the Python node nothing catches
it: `Raises` has it together with reports of which a field is missing or of the
wrong type, before or after the altitude is kept (`fields`). A string or a list
that contains neither `time` nor `ts` passes all tests there and is like a
response. Joining two texts makes no JSON; that two bare numbers would is left out.

How old a bridge's message is comes from histories of its own, not from its stamps:
`idle` is the time the receiving thread has spent waiting for data, and `arrived` what
it was when the chunk that completed a line came.

### OneShotTool and StartScript

`ToolReceives` enters `recv(1)` after the deadline was tested; from there a byte
(`ToolReadsByte`), the end of a line (`ToolReadsLine`), the socket's timeout
(`ToolHearsNothing`) or the end of the connection leads on, and `ToolTick` lets time
pass inside it. Every way out ends in `Report`, which is also what the `finally`
blocks and the process's exit do: `--set` goes on to `get_config` by a new
connection, the reset tool pauses after a success. The sensor is part of the
module, because what a success means is a fact about it: it streams, executes a
command it has received at any later time, and zeroes its position at most
`ZeroDelay` ticks after it has said yes (the 50 ms of the comment at
`scripts/dvl_reset.py:33`).

`StartScript` extends both modules. `ToolSteps` and `BridgeSteps` are the steps of
`ToolNext` and `Next` while the script is there; with `script = "off"` a tool is one
that an operator runs. Nothing of the tool's connection reaches the bridge's, as
in the code: the process is replaced and connects anew.

### MavlinkInjector, OdomBridge, SampleBridge

Reports are numbered. `MavlinkInjector` takes the lock's critical sections as
steps, which the code justifies: nothing outside the lock touches `last`. Its clock
goes on with real time (`ClockTicks`) and can be set to anything at any moment
(`ClockIsSet`); the histories `since` and `wasSet`, and with each velocity report
received what they were (`velocities`), tell real time from the clock's.
`OdomBridge` does not: it splits both critical sections, and what makes them atomic
is the lock. `OdometryMailbox` says what that amounts to: a report enters the
dictionary whole, at one moment, the next one each time, and a message is what the
dictionary held at one moment. `ImplementsMailbox` maps a dictionary that is half
written forward (`Latest`: what is still to be written counts as written) and a
copy that is half taken likewise (`Held`). `SampleBridge` takes the sections as steps again, for two scripts
whose threads have the same shape; what is split is what no lock protects: the
clock is read before the copy, a report is read before it is stored, and the
publishing thread decides about a copy when the dictionary may be newer. The pose
bridge's derived velocity is the report it was derived from.

## Runs

| run | question | expected |
|---|---|---|
| `connect` | whatever order refusals, silence and late answers come in, is a finished set-up decided and its socket usable, and does silence keep the budget? | holds |
| `connect_refused_hang` | does the set-up end, as "Max time to set up" says? | violated |
| `connect_stale_code` | does a set-up whose `Connect` returned 0 end connected? | violated |
| `sensor` | is every line handed on once, in order, intact (also by `LineChannel`); are commands taken, refused or answered, never both; is everything read before the connection's end? | holds |
| `lifecycle` | is an active node always connected, and is the altitude published the one measured last? | holds |
| `lifecycle_stuck` | is every transition request answered? | violated |
| `start_script` | is a reported success real, does a tool end in time, does the bridge start from zero; and for the bridge the order, the time since a sample was received, and which lines may wait | holds |
| `bridge_wedged` | is a complete report handled when it is received? | violated |
| `samples` | does a message pass over no newer report, is a velocity valid and young enough, is a position moved on soundly, does what is stored get out? | holds |
| `injector` | do the deltas sent relate consecutive reports, and is the interval in them the real one, however the clock is set at other times? | holds |
| `odom` | are messages whole (also by `OdometryMailbox`), after the origin, does every velocity report get out, does the publisher end? | holds |
| `pydriver` | are lines conserved and in order across connections, and of what does the node die? | holds |

### Bounds

- `connect`: no bound but `Horizon`, at which the elapsed time saturates: 90 s,
  beyond the deadline (78.5 s, 79 in whole seconds) and every sleep after it.
  Times are the code's own. The number of attempts is not bounded.
- `sensor`: `MaxLine` 1 stands for 1 MiB and `MaxBytes` 3 for the unsolicited
  stream: room for a line of up to three bytes (the buffer is thrown away in it
  and fills again), for blank lines, and for lines spread over several callbacks;
  beside them come the answers to every command the sensor received. A history
  of depth 1 stands for 10, with two commands, so that one can be dropped.
- `lifecycle`: two configurations, so that a node is cleaned up and configured
  again, and three tokens per connection; reports that differ in each thing the
  altitude logic reads. Two of them have an altitude that a repeated digit changes.
- `start_script`: the tools' `Timeout`, `Delay`, `ZeroDelay` and `Settle` are 4, 3, 3
  and 5 ticks for 2000, 60, 50 and 100 ms: the last three are multiples of 20 ms,
  rounded up, and the first is scaled down. Two lines unread at a time let a
  report precede an answer. The bridge gets three texts of every kind, so
  that an old sample can meet a new one behind a malformed line or a literal, two
  connections, five ticks of its own; the ages are 1 and 3 ticks for 150 and
  500 ms, so that a velocity and a pose can expire separately. Tool and bridge do
  not run at the same time, so that their ticks need not agree.
- `samples`: three reports over two connections, so that two reports follow each
  other on one connection or with a reconnection between them; 0.2 s of extrapolation and one second of age are one tick,
  the gap of less than a second one below two ticks, so that reports are on
  either side of each limit.
- `injector`: three reports of each kind (an invalid one between two valid
  ones), a tick of a second, a clock that moves by one tick or is set to any
  value up to two, so that intervals of 1 are accepted and those of 2, 0 and less
  are not; one delta sent, since the history of one is all a property looks at.
- `odom`: three reports of each kind, any number of connections.
- `pydriver`: three texts, two connections.

The last connection of `IntegratedBridge` and `PyDriver` is not lost: a lost one
with no successor adds no behaviour. Deadlock checking is off in all
configurations, because every program may stop: the set-up ends, the nodes are
shut down, the bounds on the sensor's output are used up.

### Fairness

- `TcpConnect`: weak fairness of the constructor's own steps, a thread that is
  scheduled. Nothing makes the sensor answer: `SilentSetupEnds` assumes instead
  that from some moment on only success, 114 and the timeout come back.
- `DvlSensor`: weak fairness of the running callback and of the timer, strong
  fairness of `TakeCommand`. rclcpp's single-threaded executor runs everything
  it collected before it collects again, so a waiting command is taken although
  the timer, ready again every 50 ms and blocking up to 400 ms, disables it over
  and over. That is an assumption about rclcpp, not a result: were the timer to
  starve the subscription, neither `NewestTaken` nor `QueriesAnswered` would show it.
  `QueriesAnswered` also assumes a sensor that answers what it received
  and ends a line it began.
- `LifecycleDvl`: the same executor. The violation does not depend on it: after a
  closed connection no transition is enabled at all.
- `SampleBridge`: weak fairness of the publishing thread. It takes the lock that
  nobody keeps across a blocking call; neither the sensor nor the clock is fair.
- `OdomBridge`: weak fairness of the threads' steps, strong fairness of taking
  the lock (the holder gives it back and then sleeps or waits for the sensor).
  Neither the sensor, nor MAVROS, nor a shutdown is fair.

## What the violated runs show

1. `connect_refused_hang`. The deadline ("Max time to set up",
   `src/dvl-sensor.cpp:72`) is tested after error 114 only. A sensor that refuses
   every attempt produces 111 or 113, and the loop never ends.
2. `connect_stale_code`. `error_code` is not reset by a `Connect` that succeeds. If
   the attempt before it ended with 114, the loop sees 114 again, sleeps, and past
   the deadline closes the connection it has just made.
3. `lifecycle_stuck`. `on_timer` ignores what `Receive` returns; with a silent or
   closed sensor it never returns, and no transition is answered again, although
   the README offers transitions as the way to control the node.
4. `bridge_wedged`. A line that is not JSON is put back with its newline, and
   nothing can be joined to it any more. Every report after it stays in the
   buffer, across reconnections. The comment at
   `scripts/dvl2mavros_posdelta.py:130` says that fragments are handled.

Seen while modelling, without a run of their own:

- `src/dvl-sensor.cpp:412`: a value of `acoustic_enabled` or `dark_mode_enabled`
  that is not a truth value does not raise an exception: a word is sent as
  `false`, an empty value as whatever the uninitialised `bool` held
  (`Encodings`).
- `src/lifecycle_dvl_component.cpp:193`: a byte repeated after a timeout can be a
  digit of the altitude. The report is published with it, and it is kept for the
  reports that follow; `AltitudeIsLastMeasured` excepts this case by name.
- `include/dvl_a50/tcpsocket.hpp:145`: a command sent into a connection that
  the sensor has closed is lost without an error, and a `get_config` answer without
  `result` (`src/dvl-sensor.cpp:328`) ends in an exception: in both cases the client
  is told nothing. `QueriesAnswered` is about connections that last and answers
  that can be published.
- `scripts/dvl2mavlink.py:183`: the comment says intervals under one second are
  accepted; one of exactly a second is, too.
- `scripts/dvl2mavlink.py:166`: after three failed attempts to set the origin the
  loop goes on, and can send nothing for ever.
- `scripts/dvl_a50.py:114`: `getData` receives before it looks for a complete
  line, so a complete line may wait for the next data, and a silence of one second
  costs a reconnection first.
- `scripts/dvl2mavros_odom.py:137`: if the shutdown comes before the event is set,
  the main thread waits for it without a timeout.
- `scripts/dvl_reset.py:31` and `scripts/dvl_config_tool.py:74`: the first line that
  comes is taken for the answer. A report has no `success`, so the tool says that
  the command failed although the sensor executes it; `dvl_start.sh` then ends
  without starting the bridge. `SuccessIsReal` holds, its converse does not.
- `scripts/dvl_config_tool.py:70`: `decode(errors='ignore')` of one byte of a
  character that takes several is the empty text, which the next line takes for
  the end of the connection (`ToolLosesConnection`).
- `scripts/dvl2mavros_pose.py:45`: a reset of the sensor's dead reckoning while the
  bridge runs is a jump of the position between two reports of one connection,
  and is derived as a velocity; `ExtrapolatesSoundly` excludes the jump of a
  reconnection only.

## Proofs

Proved by TLAPS, for every value of the constants that satisfies the named
assumptions in the component modules:

- `TcpConnect_proofs!TypeCorrect`, `ConnectedMeansUsable`, `DoneMeansDecided`,
  `BudgetIsKept`. Assumptions: the times are natural numbers with
  `SelectTimeout < MaxSetup` and a horizon beyond the budget, and error codes
  other than 0, 103 and 114 for what the network answers. `ConnectedIsUsable` and
  `DoneIsDecided` are not inductive: a loop that ends trusts `fault`, and `fault`
  is read two steps after it was written. `Decided` adds what holds at each `pc`:
  after a `Connect` returned 0 the socket stays established and blocking until
  the test of the loop, and -10 goes to `Finish` only. `BudgetIsKept` needs
  `InTime`: while nothing but silence has come back, `select()` is entered at
  most once, so its time is spent before the first 114; from then on every round
  is a sleep followed by the test of the deadline.
- `DvlSensor_proofs!TypeCorrect` and `LinesAreIntact`. For every set of reports and
  requests, every `MaxLine` and `QueueDepth` and every start-up choice; reports of
  the sensor's own accord carry no request's number. The invariant is `BufferFramed`: `receive_buffer` is a run of bytes of one line that
  ends at `pos` and starts where the line does, or after `MaxLine + 1` bytes of it
  that were thrown away. Every step that appends to `stream` keeps it
  (`FramedSurvives`, by `AppendKeeps`: a prefix of the stream is not disturbed),
  `ReadByte` extends the run or throws it away (`ReadByteKeepsInv`), and
  `ReadNewline` hands it to the parser (`ReadNewlineKeepsInv`).
- `DvlSensor_proofs!ChannelImplemented` and `ChannelIsComplete`. The refinement of
  `LineChannel` needs no invariant but the one above. Its heart is `BufferIsLine`:
  when a newline is next, the buffer is the whole line exactly when the line has 1
  to `MaxLine` bytes, by the three ways a run can start (`Starts`): at the first
  byte of all, behind a newline, or behind `MaxLine + 1` bytes of the same line, and
  then the line is too long whatever the buffer holds. `LineSurvives` says that the
  topic of a line does not depend on what comes after it; `SendingWrites` that the
  sensor's steps are `Write` or nothing, `ReadingHandles` that `ReadNewline` is
  `Handle`. `Complete` is proved of the channel (`ChannelInv`: the handled lines are
  the first ones) and holds of the node as one of its implementations.
- `DvlSensor_proofs!RefusedStayUnanswered`. `RefusedNeverAnswered` relates the
  answers the sensor sent to refusals the node sent, and is not inductive.
  `Numbered` keeps the accounts: the commands that wait are the newest, with
  consecutive numbers (`EnqueueNumbers`, for both outcomes of a full history);
  older ones were taken or lost; what is on the wire and what was refused are
  older still, and disjoint, because `command_subscriber` sends or refuses, never
  both (`CommandSends`). `AnswersSent` adds that every number on the stream and on
  a topic is 0 or on the wire.
- `DvlSensor_proofs!NewestAreKept`, `QueriesAreKept`, `UnreadStaysReadable`: what the
  three liveness properties of `sensor` rest on, without fairness. A command
  that is neither taken nor waiting is older than the last `QueueDepth`; an accepted
  query is at the sensor, in an unread answer, or answered, while the connection is
  up; `fault` is 0 while bytes are unread. What fairness adds is that
  the node and the sensor go on; nothing is left that they could have lost.
- `LifecycleDvl_proofs!TypeCorrect`, `ConfiguredIsConnected`,
  `AltitudesAreLastMeasured`. Assumption: reports are records with an integer altitude. An active node is
  connected because an unconfigured one never has `fault = 0` (`Connection`), so
  that `on_configure` always runs its loop; this is what the 1 that `on_cleanup`
  stores is for. `AltitudeIsLastMeasured` needs to know that the altitude kept between
  reports is the one last measured, and that it was so for each report before,
  whether it was published or lacked a field (`Altitudes`).
- `MavlinkInjector_proofs!TypeCorrect`, `DeltasAreConsecutive`,
  `AttitudesAreConsecutive`, `IntervalsAreReal`. For any bounds. The dictionary
  always holds the number of the latest report of each kind (`LastIsLatest`), and
  while its velocity is valid, that of the report before (`Consecutive`): an
  invalid report moves `t_vel` without `t_vel_prev`, and the next valid one
  restores the relation. A copy keeps it, since numbers of reports do not change
  (`ConsecutiveSurvives`). The interval is real because the stamp of the last report
  and the real time since add up to the clock as long as nobody sets it
  (`LastIsLatest` again), and the pair of stamps in the dictionary is that of one
  report and the one before (`Consecutive` again).
- `OdomBridge_proofs!TypeCorrect`, `MessagesAreWhole`, `LockIsHeldInBlocks`,
  `OriginGoesFirst`, `MailboxImplemented`, `MessagesNeverCross`. For any
  number of reports. `Exclusion` says that the thread inside a block under the
  lock is the one that holds it; `LastWhole` that `_last` agrees with itself except
  in the half a writer has not reached; `CopyWhole` that what the main thread has
  copied of the stamps is still what `_last` holds while it copies the values. The
  refinement adds `NextInLine`: the dictionary has every report received but the one
  that is due, and that one is the next; so `WriteStamp` is `PutPosition` or
  `PutVelocity`, `CopyStamps` is `LookUp`, and the second halves of both sections
  are no steps of the mailbox. That messages never cross (of two, one is the later in
  position and in velocity) is proved of the mailbox, where it takes a few lines, and
  carried over. This type invariant is proved only; `odom` does not repeat it.
- `StartScript_proofs!TypeCorrect`, `NoLineIsHandledTwice`, `OnlyFreshIsPublished`,
  `OnlyMalformedLinesWait`, `SuccessIsTrue`, `ToolsEndInBudget`,
  `BridgeStartsFromZero`. For any texts, ages, times and bounds; the one assumption
  about times is `ZeroDelay < Delay + Settle`, 50 ms against 60 and 100 ms in the
  code. The first half is about `IntegratedBridge` alone: `BridgeInv` is inductive
  for its `Spec`, and `BridgeImplemented` (`StartSpec => Spec`: every step of the
  script is a step of the bridge or leaves it alone) carries the result over.
  Lines come in order because buffer and wire together are one stream in
  ascending order, above everything handled (`Numbered`), which survives a lost
  connection since only an end of the stream is cut off; a sample
  that is published was received in time because those in the caches were received
  no longer before than their stamps tell (`Cached`), and that rests on the lines
  of a chunk being handled before the thread waits again: `Current` says that the
  complete lines in the buffer came with the chunk at hand, unless the first of
  them is malformed, or a chunk was broken off. The second half is `ScriptInv`:
  `Budget` says how `elapsed` and `waited` add up at each step of the tool;
  `Truthful` what an unread success on the wire says of the sensor, which is why the
  first line with a success can be believed; `Delayed` that the reset's age is at
  least what the tool and the script have slept, so that a zeroing that has not
  come by the end of both would be later than promised.
- `SampleBridge_proofs!TypeCorrect`, `NewestIsPublished`, `ExtrapolationIsSound`. For
  any limits. `Numbered` says that the dictionary holds the last report handled,
  and `prev` the same one if it came by this connection; `CopyFollows` that the copy
  is no older than what had been handled when the clock was read; `Derivations`
  that the derived velocity of the dictionary and of the copy is one of successive
  reports.
- `PyDriver_proofs!TypeCorrect`, `NoLineIsLost`, `PublicationIsInOrder`,
  `OnlyUnusableLinesKill`, `AltitudesWereValid`. Assumption: reports are records of
  the stated type, and the newline is none. `WholeLines` says that what was taken
  ends with a newline, so that the next text taken begins a line, and a line that is
  JSON is known by the newlines around it; `Measured` that
  the altitude kept was seen in a valid report, or is the 0.0 of the start.

Every invariant, every action property and every refinement that a passing run checks is stated by a
theorem. Only model-checked is liveness (`SilentSetupEnds`, `EventuallyRead`,
`QueriesAnswered`, `NewestTaken`, `ReportsGetOut`, `PublisherFinishes`,
`StoredGetsOut`), which needs ENABLED; the proofs hold its safety halves where
the code could lose something on the way, as said above.

## Not modelled

- `tests/dvl_serial`: the serial reader and its CRC-8; a test program that is not
  built with the driver and shares no code or interface with it.
- The heartbeat test thread of `dvl2mavlink.py`, off by default: it only sends.
- The command line of the tools and what they print, beyond success and the mode.
- Numbers in the reports, unit and frame conversions, covariances: no property is
  about them. A report is its type, its validity, its altitude where the code
  decides by it, and which of its fields cannot be used, as far as the code reacts.
- Launch files and build files: declarative, without state.

Several programs at the sensor at once share nothing but the sensor; each module
lets the sensor send whatever another client could make it send, except the jump
of a reset (see above).

## Plan

Done: `TcpConnect`, `DvlSensor` with `LineChannel`, `LifecycleDvl`,
`IntegratedBridge`, `MavlinkInjector`, `OdomBridge`, `PyDriver`; then the tools and
the start script with its bridge, the speed and pose bridges, and the proofs about
all of them.

What would come next:

1. `DvlNode`: `TcpConnect` and `DvlSensor` composed, the subscription filling while
   the set-up runs.
2. The serial test's CRC-8 as a function checked against its definition, if the
   serial protocol becomes part of the driver.
