SPECIFICATION FairSpec
CONSTANTS
  c1 = c1
  c2 = c2
  Callers = {c1, c2}
  Requests <- StartsAndStops
  MaxTunnels = 2
  MaxRequests = 3
  FaultSets = {{}, {"lack", "panic"}}
INVARIANTS CanBeStopped  StatusIsTrue
PROPERTIES StopIsFinal StopsReturn RestartRestarts
CHECK_DEADLOCK FALSE
