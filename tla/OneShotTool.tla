----------------------------- MODULE OneShotTool -----------------------------
(***************************************************************************)
(* dvl_reset.py and dvl_config_tool.py with the sensor they talk to.  Each *)
(* opens a connection, sends one command, takes the first line that comes  *)
(* for the answer, and reports; --set does so for set_config and again, by *)
(* a new connection, for get_config.  The sensor streams reports on every  *)
(* connection and executes a command it has received at some time, also    *)
(* when the tool has given up; an answer goes to the connection that asked.*)
(*                                                                         *)
(* Time passes inside recv() and in sleeps; everything else takes none.    *)
(* The names carry a prefix because StartScript extends this module and    *)
(* the bridge's.                                                           *)
(***************************************************************************)
EXTENDS Integers, Sequences

CONSTANTS
  Timeout,    \* ticks, two seconds: of a recv(), and of the wait for a line
  Delay,      \* ticks, the 60 ms dvl_reset.py waits after a success
  ZeroDelay,  \* ticks, the 50 ms the sensor takes to zero its position
  MaxLines    \* bound on the lines of a connection that the tool has not read

ASSUME TimesAssumption == Timeout \in Nat /\ Delay \in Nat /\ ZeroDelay \in Nat
ASSUME LinesAssumption == MaxLines \in Nat

ToolCommands == {"reset_dead_reckoning", "set_config", "get_config"}
Modes == {"old", "new"}

\* What a line says.  Reports have no success, garbled ones are not JSON.
Unsolicited == {"report", "garbled"}
ToolLine == [kind : Unsolicited \cup {"answer"}, success : BOOLEAN, mode : Modes]

VARIABLES
  command,   \* the command this connection is for
  step,      \* where the tool is
  elapsed,   \* ticks since start_time
  waited,    \* ticks in this recv() or sleep
  toolWire,  \* lines the sensor has sent on this connection
  queue,     \* commands the sensor has received and not executed
  mode,      \* the sensor's range_mode; --set asks for the new one
  zeroing,   \* the sensor's position: zeroed, about to be, or neither
  age,       \* ticks since the reset was executed
  reported,  \* what the tool has printed of each command
  shown      \* the range_mode it has printed

sensorState == <<queue, mode, zeroing, age>>
toolVars == <<command, step, elapsed, waited, toolWire, sensorState, reported, shown>>

ToolTypeOK ==
  /\ command \in ToolCommands
  /\ step \in {"connecting", "waiting", "receiving", "pausing", "verifying", "ended"}
  /\ elapsed \in Nat
  /\ waited \in Nat
  /\ toolWire \in Seq(ToolLine)
  /\ queue \subseteq ToolCommands
  /\ mode \in Modes
  /\ zeroing \in {"no", "pending", "done"}
  /\ age \in 0..ZeroDelay
  /\ reported \in [ToolCommands -> {"nothing", "success", "failure", "error"}]
  /\ shown \in Modes \cup {"none"}

ToolInit ==
  /\ command \in ToolCommands
  /\ step = "connecting"
  /\ elapsed = 0
  /\ waited = 0
  /\ toolWire = <<>>
  /\ queue = {}
  /\ mode = "old"
  /\ zeroing = "no"
  /\ age = 0
  /\ reported = [c \in ToolCommands |-> "nothing"]
  /\ shown = "none"

Online == step \in {"waiting", "receiving"}

-----------------------------------------------------------------------------
(* send_command and reset_dead_reckoning.                                  *)

\* The command ends and its socket is closed: dvl_reset.py pauses after a
\* success, and --set goes on to verify whatever came of it.
Report(result) ==
  /\ reported' = [reported EXCEPT ![command] = result]
  /\ step' = CASE command = "set_config" -> "verifying"
               [] command = "reset_dead_reckoning" /\ result = "success" -> "pausing"
               [] OTHER -> "ended"
  /\ elapsed' = 0
  /\ waited' = 0
  /\ toolWire' = <<>>
  /\ UNCHANGED <<command, sensorState>>

ToolConnects ==
  /\ step = "connecting"
  /\ step' = "waiting"
  /\ queue' = queue \cup {command}
  /\ UNCHANGED <<command, elapsed, waited, toolWire, mode, zeroing, age, reported, shown>>

ToolCannotConnect ==
  /\ step = "connecting"
  /\ Report("error")
  /\ UNCHANGED shown

\* The deadline is tested before each byte.
ExpiredNever == FALSE
Expired == elapsed > Timeout

ToolExpires ==
  /\ step = "waiting"
  /\ Expired
  /\ Report("error")
  /\ UNCHANGED shown

ToolReceives ==
  /\ step = "waiting"
  /\ ~Expired
  /\ step' = "receiving"
  /\ waited' = 0
  /\ UNCHANGED <<command, elapsed, toolWire, sensorState, reported, shown>>

\* A byte of a line; the sensor need not end the line.
ToolReadsByte ==
  /\ step = "receiving"
  /\ step' = "waiting"
  /\ UNCHANGED <<command, elapsed, waited, toolWire, sensorState, reported, shown>>

\* A line without success is a failure; a default of success would not be.
ResultTrusting(line) == IF line.kind = "report" \/ line.success THEN "success" ELSE "failure"
Result(line) ==
  CASE line.kind = "garbled" -> "error"
    [] line.kind = "answer" /\ line.success -> "success"
    [] OTHER -> "failure"

ToolReadsLine ==
  /\ step = "receiving"
  /\ toolWire # <<>>
  /\ Report(Result(Head(toolWire)))
  /\ shown' = IF command = "get_config" /\ Result(Head(toolWire)) = "success"
              THEN Head(toolWire).mode ELSE shown

\* recv() times out.
ToolHearsNothing ==
  /\ step = "receiving"
  /\ waited = Timeout
  /\ Report("error")
  /\ UNCHANGED shown

\* The connection ends or is reset.
ToolLosesConnection ==
  /\ step = "receiving"
  /\ Report("error")
  /\ UNCHANGED shown

-----------------------------------------------------------------------------
(* What follows a command.                                                 *)

\* --set sleeps half a second and asks for the configuration.
ToolVerifies ==
  /\ step = "verifying"
  /\ command' = "get_config"
  /\ step' = "connecting"
  /\ UNCHANGED <<elapsed, waited, toolWire, sensorState, reported, shown>>

\* dvl_reset.py has slept and exits.
ToolPaused ==
  /\ step = "pausing"
  /\ waited = Delay
  /\ step' = "ended"
  /\ waited' = 0
  /\ UNCHANGED <<command, elapsed, toolWire, sensorState, reported, shown>>

-----------------------------------------------------------------------------
(* The sensor.                                                             *)

SensorStreams ==
  /\ Online
  /\ Len(toolWire) < MaxLines
  /\ \E k \in Unsolicited :
       toolWire' = Append(toolWire, [kind |-> k, success |-> FALSE, mode |-> mode])
  /\ UNCHANGED <<command, step, elapsed, waited, sensorState, reported, shown>>

SensorExecutes ==
  /\ \E c \in queue, ok \in BOOLEAN :
       /\ queue' = queue \ {c}
       /\ mode' = IF c = "set_config" /\ ok THEN "new" ELSE mode
       /\ zeroing' = IF c = "reset_dead_reckoning" /\ ok THEN "pending" ELSE zeroing
       /\ toolWire' = IF c = command /\ Online
            THEN Append(toolWire, [kind |-> "answer", success |-> ok, mode |-> mode])
            ELSE toolWire
  /\ UNCHANGED <<command, step, elapsed, waited, age, reported, shown>>

SensorZeroes ==
  /\ zeroing = "pending"
  /\ zeroing' = "done"
  /\ age' = 0
  /\ UNCHANGED <<command, step, elapsed, waited, toolWire, queue, mode, reported, shown>>

\* A tick at the sensor, which zeroes no later than it promised.
SensorAges ==
  /\ zeroing = "pending" => age < ZeroDelay
  /\ age' = IF zeroing = "pending" THEN age + 1 ELSE age
  /\ UNCHANGED <<queue, mode, zeroing>>

ToolTick ==
  /\ \/ step = "receiving" /\ waited < Timeout /\ elapsed' = elapsed + 1
     \/ step = "pausing" /\ waited < Delay /\ UNCHANGED elapsed
  /\ waited' = waited + 1
  /\ SensorAges
  /\ UNCHANGED <<command, step, toolWire, reported, shown>>

-----------------------------------------------------------------------------
SensorNext == SensorStreams \/ SensorExecutes \/ SensorZeroes

ToolNext ==
  \/ ToolConnects \/ ToolCannotConnect \/ ToolExpires \/ ToolReceives
  \/ ToolReadsByte \/ ToolReadsLine \/ ToolHearsNothing \/ ToolLosesConnection
  \/ ToolVerifies \/ ToolPaused \/ ToolTick

-----------------------------------------------------------------------------
(* A tool that reports success has had its command executed, although it   *)
(* does not look at what a line answers and reports may come first; and    *)
(* when --set reports two successes, the mode it shows is the one it set.  *)
SuccessIsReal ==
  /\ reported["reset_dead_reckoning"] = "success" => zeroing # "no"
  /\ reported["set_config"] = "success" => mode = "new"
  /\ reported["set_config"] = "success" /\ reported["get_config"] = "success" => shown = "new"

(* However the sensor spreads its bytes, also if it never ends a line, a   *)
(* tool waits for its answer no longer than twice its timeout: the deadline*)
(* is tested between bytes, and the last recv() may take a timeout more.   *)
ToolWithinBudget == Online => elapsed <= 2 * Timeout
=============================================================================
