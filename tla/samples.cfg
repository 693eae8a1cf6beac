SPECIFICATION FairSpec
CONSTANTS
  DataTimeout = 1
  MaxGap = 2
  MaxExtrapolate = 1
  UseExtrapolation = TRUE
  MaxReports = 3
  MaxTime = 3
  MaxConnects = 2
INVARIANTS TypeOK PublishesNewest ExtrapolatesSoundly
PROPERTIES StoredGetsOut
CHECK_DEADLOCK FALSE
