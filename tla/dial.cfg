SPECIFICATION FairSpec
CONSTANTS
  dns = dns
  dns2 = dns2
  fb = fb
  ssh1 = ssh1
  ssh2 = ssh2
  Profiles <- MCProfiles
  Callers = {"tunnel", "probe"}
  Networks <- MCNetworks
  DnsIPs = {dns, dns2}
  SshFallback = {fb}
  ProxyFallback = {}
  Statuses = {200, 302, 404}
  Banner <- TwoPieces
  MayCoalesce = TRUE
  MaxResponses = 2
INVARIANTS ConnAccounted 
PROPERTIES PreparationEnds FallbackReached
CHECK_DEADLOCK FALSE
