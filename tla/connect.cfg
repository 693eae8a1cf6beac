SPECIFICATION Spec
CONSTANTS
  SelectTimeout = 5
  RetrySleep = 2
  MaxSetup = 79
  Horizon = 90
  AddressValid = TRUE
  SocketOutcomes <- MCBothOutcomes
  HandshakeErrors <- MCHandshakeErrors
  RouteErrors <- MCRouteErrors
INVARIANTS TypeOK ConnectedIsUsable DoneIsDecided SetupWithinBudget
PROPERTIES SilentSetupEnds
CHECK_DEADLOCK FALSE
