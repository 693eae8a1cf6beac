SPECIFICATION Spec
CONSTANTS
  vel = vel
  pos = pos
  ack = ack
  lit = lit
  bad = bad
  Newline = Newline
  Velocities <- MCVelocities
  Positions <- MCPositions
  Others <- MCOthers
  Literals <- MCLiterals
  Fragments <- MCFragments
  VelMaxAge = 1
  PoseMaxAge = 3
  MaxTokens = 2
  MaxTime = 0
  MaxConnects = 1
INVARIANTS LinesHandledAtOnce
CHECK_DEADLOCK FALSE
