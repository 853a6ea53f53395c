SPECIFICATION RevocationSpec
CONSTANTS
  c1 = c1  c2 = c2
  u1 = u1
  None = None
  Conns = {c1, c2}
  Users = {u1}
  Hosts = {h1}
  Names = {n1}
  Ports = {1}
  PortLo = 1
  PortHi = 1
  Busy = {}
  Wanted = {None}
  MissedHeartbeats = 1
  MaxIssued = 2
  MaxOpens = 1
  UserOf <- MCUserOf
  MaxTunnels <- MCMaxTunnels
  HostFor <- MCHostFor
  Domains <- MCDomains
INVARIANTS
  RevokedIsOffline
CHECK_DEADLOCK FALSE
