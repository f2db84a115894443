SPECIFICATION FairSpec
CONSTANTS
  Addrs = {a1}
  MaxClients = 2
  MaxConns = 2
  MaxChans = 2
  MaxWaiters = 1
  ChanCap = 1
INVARIANTS OneReader NoLeakedChannel
PROPERTIES LoopNotStuck LostConnDropped
CHECK_DEADLOCK FALSE
