SPECIFICATION FairSpec
CONSTANTS
  Byte = Byte
  Reports <- MCOneReport
  Garbled <- MCGarbled
  MaxTokens = 2
  MaxConfigures = 1
PROPERTIES RequestsAnswered
CHECK_DEADLOCK FALSE
