----------------------------- MODULE StartScript -----------------------------
(***************************************************************************)
(* dvl_start.sh: dvl_reset.py runs to its end, a pause follows, and then   *)
(* the shell is replaced by dvl2mavros_posdelta.py, unless the tool failed *)
(* ("set -e").  The script's process is OneShotTool, then IntegratedBridge,*)
(* at the same sensor.  A tool that an operator runs on its own is         *)
(* OneShotTool alone, with the script off.                                 *)
(***************************************************************************)
EXTENDS IntegratedBridge, OneShotTool

CONSTANT Settle   \* ticks, the 100 ms the script sleeps

\* The two sleeps together outlast the sensor's delay.
ASSUME SettleAssumption == Settle \in Nat /\ ZeroDelay < Delay + Settle

VARIABLES
  script,   \* what the script is doing
  settled   \* ticks in its sleep

scriptVars == <<script, settled>>
allVars == <<vars, toolVars, scriptVars>>

StartTypeOK ==
  /\ TypeOK
  /\ ToolTypeOK
  /\ script \in {"off", "resetting", "settling", "running", "aborted"}
  /\ settled \in 0..Settle

StartInit ==
  /\ Init
  /\ ToolInit
  /\ script = IF command = "reset_dead_reckoning" THEN "resetting" ELSE "off"
  /\ settled = 0

-----------------------------------------------------------------------------
\* The exit code of dvl_reset.py; without "set -e" it would be ignored.
SucceededIgnored == TRUE
Succeeded == reported["reset_dead_reckoning"] = "success"

ResetEnds ==
  /\ script = "resetting"
  /\ step = "ended"
  /\ script' = IF Succeeded THEN "settling" ELSE "aborted"
  /\ UNCHANGED <<vars, toolVars, settled>>

SettleTick ==
  /\ script = "settling"
  /\ settled < Settle
  /\ settled' = settled + 1
  /\ SensorAges
  /\ UNCHANGED <<vars, command, step, elapsed, waited, toolWire, reported, shown, script>>

\* exec.
BridgeStarts ==
  /\ script = "settling"
  /\ settled = Settle
  /\ script' = "running"
  /\ settled' = 0
  /\ UNCHANGED <<vars, toolVars>>

-----------------------------------------------------------------------------
ToolSteps ==
  /\ script \in {"off", "resetting"}
  /\ ToolNext
  /\ UNCHANGED <<vars, scriptVars>>

SensorSteps == SensorNext /\ UNCHANGED <<vars, scriptVars>>

BridgeSteps ==
  /\ script = "running"
  /\ Next
  /\ UNCHANGED <<toolVars, scriptVars>>

StartNext ==
  ToolSteps \/ SensorSteps \/ ResetEnds \/ SettleTick \/ BridgeStarts \/ BridgeSteps

StartSpec == StartInit /\ [][StartNext]_allVars

-----------------------------------------------------------------------------
(* What the script is for: the bridge reads no line, and publishes none,   *)
(* of before the sensor has zeroed its position, although the sensor       *)
(* answers first and zeroes later.                                         *)
StartsFromZero == connects > 0 => zeroing = "done"
=============================================================================
