SPECIFICATION ConnectFairSpec
CONSTANTS
  MaxClients = 2
  DrainAgain = TRUE
  Transparent = {TRUE, FALSE}
  MayPanic = FALSE
  BaseDelay = 1
  MaxDelay = 30
  OfflineDelay = 5
PROPERTY LostIsReplaced
CHECK_DEADLOCK FALSE
