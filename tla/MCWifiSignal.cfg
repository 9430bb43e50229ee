SPECIFICATION WifiFairSpec
CONSTANTS
  MaxLosses = 2
  MaxEvents = 3
PROPERTY ConnectedIsSignalled
CHECK_DEADLOCK FALSE
