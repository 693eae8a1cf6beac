SPECIFICATION Spec
CONSTANTS
  SelectTimeout = 5
  RetrySleep = 2
  MaxSetup = 79
  Horizon = 90
  AddressValid = TRUE
  SocketOutcomes <- MCOnlyOpen
  HandshakeErrors <- MCHandshakeErrors
  RouteErrors <- MCNoErrors
PROPERTIES SetupTerminates
CHECK_DEADLOCK FALSE
