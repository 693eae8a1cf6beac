SPECIFICATION FairSpec
CONSTANTS
  MaxReports = 3
INVARIANTS MessageIsWhole OriginFirst
PROPERTIES ImplementsMailbox ReportsGetOut PublisherFinishes
CHECK_DEADLOCK FALSE
