SPECIFICATION FairSpec
CONSTANTS
  DataByte = DataByte
  Telemetry <- MCVelocity
  Requests <- MCRequests
  MaxLine = 1
  QueueDepth = 1
  ConfigureAcoustic = FALSE
  AcousticEnabled = "true"
  RequestConfig = FALSE
  MaxBytes = 3
  MaxRequests = 2
INVARIANTS TypeOK LinesIntact RefusedNeverAnswered
PROPERTIES ImplementsChannel EventuallyRead QueriesAnswered NewestTaken
CHECK_DEADLOCK FALSE
