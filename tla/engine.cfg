SPECIFICATION FairSpec
CONSTANTS
  MaxClients = 2
  DrainAgain = FALSE
  Transparent = {TRUE, FALSE}
  MayPanic = TRUE
  BaseDelay = 1
  MaxDelay = 30
  OfflineDelay = 5
INVARIANTS TypeOK SingleSession NothingOutlivesLoop PublishedIsNewest HooksRemovable
PROPERTIES FailClosed ImplementsContract StopTerminates StallIsNoticed
CHECK_DEADLOCK FALSE
