SPECIFICATION Spec
CONSTANTS
  Addrs = {a1, a2}
  MaxClients = 1
  MaxConns = 1
  MaxChans = 1
  MaxWaiters = 1
  ChanCap = 1
PROPERTY ReplyReachesFlow
CHECK_DEADLOCK FALSE
