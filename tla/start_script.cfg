SPECIFICATION StartSpec
CONSTANTS
  vel = vel
  pos = pos
  ack = ack
  lit = lit
  bad = bad
  Newline = Newline
  Velocities <- MCVelocities
  Positions <- MCPositions
  Others <- MCOthers
  Literals <- MCLiterals
  Fragments <- MCFragments
  VelMaxAge = 1
  PoseMaxAge = 3
  MaxTokens = 3
  MaxTime = 5
  MaxConnects = 2
  Timeout = 4
  Delay = 3
  ZeroDelay = 3
  Settle = 5
  MaxLines = 2
INVARIANTS StartTypeOK NoLineTwice OnlyMalformedWaits SuccessIsReal ToolWithinBudget StartsFromZero
PROPERTY PublishedFresh
CHECK_DEADLOCK FALSE
