SPECIFICATION Spec
CONSTANTS
  Byte = Byte
  Reports <- MCReports
  Garbled <- MCGarbled
  MaxTokens = 3
  MaxConfigures = 2
INVARIANTS TypeOK ConfiguredMeansConnected AltitudeIsLastMeasured
CHECK_DEADLOCK FALSE
