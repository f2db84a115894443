SPECIFICATION Spec
CONSTANTS
  c1 = c1
  c2 = c2
  Callers = {c1, c2}
  Requests <- TwoStarters
  MaxTunnels = 2
  MaxRequests = 3
  FaultSets = {{}}
INVARIANT OneTunnel
CHECK_DEADLOCK FALSE
