SPECIFICATION StreamFairSpec
CONSTANTS
  MaxClients = 2
  DrainAgain = FALSE
  Transparent = {FALSE}
  MayPanic = FALSE
  BaseDelay = 1
  MaxDelay = 1
  OfflineDelay = 1
  Streams = {s1}
  Queries = {q1}
  Present <- EachAlone
  MaxPolls = 4
INVARIANT StreamsCounted
PROPERTIES NoHealthyClientKilled HandlersProgress 
CHECK_DEADLOCK FALSE
