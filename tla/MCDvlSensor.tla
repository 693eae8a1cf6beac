----------------------------- MODULE MCDvlSensor -----------------------------
(* DvlSensor with lines of one to three bytes for a MaxLine of one, and     *)
(* commands of every branch of command_subscriber.                          *)
EXTENDS DvlSensor

MCVelocity == {[type |-> "velocity", response_to |-> "none", complete |-> TRUE, id |-> 0]}

Request(command, name, value) ==
  [command |-> command, name |-> name, value |-> value]

MCRequests == {
  Request("get_config", "none", "none"),
  Request("reset_dead_reckoning", "none", "none"),
  Request("set_config", "dark_mode_enabled", "empty"),
  Request("set_config", "speed_of_sound", "word"),
  Request("unknown", "none", "none")}
=============================================================================
