SPECIFICATION Spec
CONSTANTS
  MinDelta = 0
  MaxDelta = 1
  MaxAttempts = 2
  ConnectWorks <- MCBoth
  MaxTime = 2
  MaxReports = 3
  MaxSends = 1
INVARIANTS TypeOK DeltaIsConsecutive AttitudeIsConsecutive IntervalIsReal
CHECK_DEADLOCK FALSE
